---- MODULE Spec2Model ----
(***************************************************************************)
(* Model of the streaming decoders of the docker-admin services:           *)
(*   DockerService.pullImageWithProgress   (services/docker.ts)            *)
(*   DockerfileService.buildImage          (services/dockerfile.ts)        *)
(* A response body is a sequence of bytes that arrives in chunks; text is  *)
(* a sequence of characters.  ASCII bytes and characters are one-character *)
(* strings; the bytes of a multi-byte UTF-8 sequence are named by their    *)
(* hex value ("C3", "A9") and non-ASCII characters by their code point     *)
(* ("U+00E9", "U+FFFD").                                                   *)
(***************************************************************************)
EXTENDS Integers, Sequences, FiniteSets, TLC

\* ------------------------------------------------------------------ bounds
\* A response body is the concatenation of at most MaxPieces pieces.
MaxPieces == 3
\* The wall clock advances by ClockStep ms per tick, at most MaxTicks ticks.
MaxTicks == 1
\* The pull aggregator is fed at most MaxEvents events with byte counts up
\* to MaxBytes.
MaxEvents == 3
MaxBytes == 2
\* A recipe is the concatenation of at most MaxRecipePieces texts.
MaxRecipePieces == 3

\* ------------------------------------------------------------ text helpers
\* String.prototype.trim: white space of the modelled alphabet.
TrimSpace == {" ", "\n", "\t", "\r"}

Trim(s) ==
  LET solid == {i \in 1..Len(s) : s[i] \notin TrimSpace}
  IN IF solid = {} THEN <<>>
     ELSE SubSeq(s, CHOOSE i \in solid : \A j \in solid : i <= j,
                    CHOOSE i \in solid : \A j \in solid : j <= i)

StartsWith(s, p) == Len(s) >= Len(p) /\ SubSeq(s, 1, Len(p)) = p

Includes(s, p) ==
  \E i \in 1..(Len(s) - Len(p) + 1) : SubSeq(s, i, i + Len(p) - 1) = p

\* ------------------------------------------------- TextDecoder().decode
\* Lead bytes of a two-byte UTF-8 sequence and continuation bytes.
LeadBytes == {"C3"}
ContBytes == {"A9"}

CodePoint(lead, cont) ==
  IF lead = "C3" /\ cont = "A9" THEN "U+00E9" ELSE "U+FFFD"

\* A fresh, non-streaming decoder per chunk: a sequence truncated by the end
\* of the chunk and a continuation byte with no lead byte both decode to the
\* replacement character U+FFFD.
TextDecode(bs) ==
  LET n == Len(bs)
      \* "" marks a continuation byte consumed by the lead byte before it.
      at == [i \in 1..n |->
               IF bs[i] \in LeadBytes
               THEN IF i < n /\ bs[i + 1] \in ContBytes
                    THEN CodePoint(bs[i], bs[i + 1])
                    ELSE "U+FFFD"
               ELSE IF bs[i] \in ContBytes
               THEN IF i > 1 /\ bs[i - 1] \in LeadBytes THEN "" ELSE "U+FFFD"
               ELSE bs[i]]
      Kept(c) == c # ""
  IN SelectSeq(at, Kept)

\* ------------------------------------------------- String.split('\n')
\* The pieces between newlines; always at least one element.
RECURSIVE SplitLines(_)
SplitLines(s) ==
  LET breaks == {i \in 1..Len(s) : s[i] = "\n"}
      first == CHOOSE i \in breaks : \A j \in breaks : i <= j
  IN IF breaks = {} THEN <<s>>
     ELSE <<SubSeq(s, 1, first - 1)>> \o SplitLines(SubSeq(s, first + 1, Len(s)))

\* ------------------------------------------------------------ JSON.parse
\* JSON values: strings, non-negative integers and objects.
JStr(s) == [t |-> "str", s |-> s, n |-> 0, o |-> <<>>]
JNum(n) == [t |-> "num", s |-> <<>>, n |-> n, o |-> <<>>]
JObj(o) == [t |-> "obj", s |-> <<>>, n |-> 0, o |-> o]
JUndef == [t |-> "undef", s |-> <<>>, n |-> 0, o |-> <<>>]

JsonSpace == {" ", "\n", "\t", "\r"}
Digits == {"0", "1", "2", "3", "4", "5", "6", "7", "8", "9"}

DigitVal(c) ==
  CASE c = "0" -> 0 [] c = "1" -> 1 [] c = "2" -> 2 [] c = "3" -> 3
    [] c = "4" -> 4 [] c = "5" -> 5 [] c = "6" -> 6 [] c = "7" -> 7
    [] c = "8" -> 8 [] c = "9" -> 9

HexDigits == Digits \cup {"a", "b", "c", "d", "e", "f", "A", "B", "C", "D", "E", "F"}

\* String.fromCharCode(parseInt(code, 16)) on the four hex digits of \uXXXX.
FromCharCode(h) ==
  CASE h = <<"0", "0", "4", "1">> -> "A"
    [] h = <<"0", "0", "7", "d">> -> "}"
    [] h = <<"0", "0", "7", "D">> -> "}"
    [] h = <<"0", "0", "e", "9">> -> "U+00E9"
    [] h = <<"0", "0", "E", "9">> -> "U+00E9"
    [] OTHER -> "U+" \o h[1] \o h[2] \o h[3] \o h[4]

IsHex4(t, i) ==
  i + 3 <= Len(t) /\ \A k \in i..(i + 3) : t[k] \in HexDigits

ParseFail == [ok |-> FALSE, v |-> JUndef, i |-> 0]
ParseOk(v, i) == [ok |-> TRUE, v |-> v, i |-> i]

RECURSIVE SkipSpace(_, _)
SkipSpace(t, i) ==
  IF i <= Len(t) /\ t[i] \in JsonSpace THEN SkipSpace(t, i + 1) ELSE i

\* The characters after the opening quote, up to the closing quote.
RECURSIVE ParseStringBody(_, _, _)
ParseStringBody(t, i, acc) ==
  IF i > Len(t) THEN ParseFail
  ELSE IF t[i] = "\"" THEN ParseOk(JStr(acc), i + 1)
  ELSE IF t[i] = "\\" THEN
    IF i + 1 > Len(t) THEN ParseFail
    ELSE IF t[i + 1] \in {"\"", "\\", "/"}
      THEN ParseStringBody(t, i + 2, Append(acc, t[i + 1]))
    ELSE IF t[i + 1] = "n" THEN ParseStringBody(t, i + 2, Append(acc, "\n"))
    ELSE IF t[i + 1] = "t" THEN ParseStringBody(t, i + 2, Append(acc, "\t"))
    ELSE IF t[i + 1] = "r" THEN ParseStringBody(t, i + 2, Append(acc, "\r"))
    ELSE IF t[i + 1] = "u" /\ IsHex4(t, i + 2)
      THEN ParseStringBody(t, i + 6,
                           Append(acc, FromCharCode(SubSeq(t, i + 2, i + 5))))
    ELSE ParseFail
  ELSE IF t[i] \in {"\n", "\t", "\r"} THEN ParseFail
  ELSE ParseStringBody(t, i + 1, Append(acc, t[i]))

RECURSIVE ParseDigits(_, _, _)
ParseDigits(t, i, n) ==
  IF i <= Len(t) /\ t[i] \in Digits
  THEN ParseDigits(t, i + 1, 10 * n + DigitVal(t[i]))
  ELSE ParseOk(JNum(n), i)

\* No leading zero: "0" is a number, "01" is not.
ParseNumber(t, i) ==
  IF t[i] = "0"
  THEN IF i + 1 <= Len(t) /\ t[i + 1] \in Digits THEN ParseFail
       ELSE ParseOk(JNum(0), i + 1)
  ELSE ParseDigits(t, i, 0)

\* An object keeps one value per key: a repeated key keeps its first place
\* and takes the later value.
RECURSIVE ObjSet(_, _, _)
ObjSet(o, k, v) ==
  IF o = <<>> THEN <<[k |-> k, v |-> v]>>
  ELSE IF Head(o).k = k THEN <<[k |-> k, v |-> v]>> \o Tail(o)
  ELSE <<Head(o)>> \o ObjSet(Tail(o), k, v)

RECURSIVE ParseValue(_, _)
RECURSIVE ParseMembers(_, _, _)

\* i is at the key of the next member of the object being read.
ParseMembers(t, i, acc) ==
  LET a == SkipSpace(t, i) IN
  IF a > Len(t) \/ t[a] # "\"" THEN ParseFail
  ELSE
    LET key == ParseStringBody(t, a + 1, <<>>) IN
    IF ~key.ok THEN ParseFail
    ELSE
      LET c == SkipSpace(t, key.i) IN
      IF c > Len(t) \/ t[c] # ":" THEN ParseFail
      ELSE
        LET val == ParseValue(t, c + 1) IN
        IF ~val.ok THEN ParseFail
        ELSE
          LET e == SkipSpace(t, val.i)
              next == ObjSet(acc, key.v.s, val.v)
          IN IF e > Len(t) THEN ParseFail
             ELSE IF t[e] = "}" THEN ParseOk(JObj(next), e + 1)
             ELSE IF t[e] = "," THEN ParseMembers(t, e + 1, next)
             ELSE ParseFail

ParseValue(t, i) ==
  LET a == SkipSpace(t, i) IN
  IF a > Len(t) THEN ParseFail
  ELSE IF t[a] = "\"" THEN ParseStringBody(t, a + 1, <<>>)
  ELSE IF t[a] \in Digits THEN ParseNumber(t, a)
  ELSE IF t[a] = "{" THEN
    LET b == SkipSpace(t, a + 1) IN
    IF b <= Len(t) /\ t[b] = "}" THEN ParseOk(JObj(<<>>), b + 1)
    ELSE ParseMembers(t, a + 1, <<>>)
  ELSE ParseFail

\* JSON.parse(text): one value and nothing but white space after it;
\* ok = FALSE stands for the SyntaxError it throws.
JsonParse(t) ==
  LET r == ParseValue(t, 1) IN
  IF r.ok /\ SkipSpace(t, r.i) = Len(t) + 1 THEN r ELSE ParseFail

\* event.key: the property of a parsed object, undefined when absent.
RECURSIVE Lookup(_, _)
Lookup(o, k) ==
  IF o = <<>> THEN JUndef
  ELSE IF Head(o).k = k THEN Head(o).v
  ELSE Lookup(Tail(o), k)

Get(v, k) == IF v.t = "obj" THEN Lookup(v.o, k) ELSE JUndef

\* JavaScript truthiness of a value.
Truthy(v) ==
  CASE v.t = "str" -> v.s # <<>>
    [] v.t = "num" -> v.n # 0
    [] v.t = "obj" -> TRUE
    [] OTHER -> FALSE

\* ------------------------------------------------------- text constants
\* Property names, status tokens, messages and log tags of the two services,
\* as character sequences.
K_id == <<"i", "d">>
K_status == <<"s", "t", "a", "t", "u", "s">>
K_progress == <<"p", "r", "o", "g", "r", "e", "s", "s">>
K_progressDetail ==
  <<"p", "r", "o", "g", "r", "e", "s", "s", "D", "e", "t", "a", "i", "l">>
K_current == <<"c", "u", "r", "r", "e", "n", "t">>
K_total == <<"t", "o", "t", "a", "l">>
K_error == <<"e", "r", "r", "o", "r">>
K_errorDetail == <<"e", "r", "r", "o", "r", "D", "e", "t", "a", "i", "l">>
K_message == <<"m", "e", "s", "s", "a", "g", "e">>
K_stream == <<"s", "t", "r", "e", "a", "m">>
K_aux == <<"a", "u", "x">>
K_ID == <<"I", "D">>
DownloadComplete ==
  <<"D", "o", "w", "n", "l", "o", "a", "d", " ", "c", "o", "m", "p", "l",
    "e", "t", "e">>
PullComplete ==
  <<"P", "u", "l", "l", " ", "c", "o", "m", "p", "l", "e", "t", "e">>
AlreadyExists ==
  <<"A", "l", "r", "e", "a", "d", "y", " ", "e", "x", "i", "s", "t", "s">>
PullCancelledMsg ==
  <<"U+62C9", "U+53D6", "U+64CD", "U+4F5C", "U+5DF2", "U+53D6", "U+6D88">>
PullFailedMsg ==
  <<"U+62C9", "U+53D6", "U+955C", "U+50CF", "U+5931", "U+8D25">>
BuildCancelledMsg ==
  <<"U+6784", "U+5EFA", "U+64CD", "U+4F5C", "U+5DF2", "U+53D6", "U+6D88">>
BuildFailedMsg ==
  <<"U+6784", "U+5EFA", "U+955C", "U+50CF", "U+5931", "U+8D25">>
BuildErrorDefault ==
  <<"U+6784", "U+5EFA", "U+8FC7", "U+7A0B", "U+4E2D", "U+51FA", "U+73B0",
    "U+9519", "U+8BEF">>
ErrorTag == <<"U+274C", " ", "U+9519", "U+8BEF", ":", " ">>
RawDataTag ==
  <<"U+26A0", "U+FE0F", " ", "U+539F", "U+59CB", "U+6570", "U+636E", ":",
    " ">>
M_Step == <<"S", "t", "e", "p", " ">>
T_Step == <<"U+1F528", " ">>
M_Built ==
  <<"S", "u", "c", "c", "e", "s", "s", "f", "u", "l", "l", "y", " ", "b",
    "u", "i", "l", "t">>
T_Ok == <<"U+2705", " ">>
M_Tagged ==
  <<"S", "u", "c", "c", "e", "s", "s", "f", "u", "l", "l", "y", " ", "t",
    "a", "g", "g", "e", "d">>
T_Tagged == <<"U+1F3F7", "U+FE0F", " ">>
M_Running == <<"R", "u", "n", "n", "i", "n", "g", " ", "i", "n">>
T_Running == <<"U+2699", "U+FE0F", " ">>
M_Removed ==
  <<"R", "e", "m", "o", "v", "e", "d", " ", "i", "n", "t", "e", "r", "m",
    "e", "d", "i", "a", "t", "e", " ", "c", "o", "n", "t", "a", "i", "n",
    "e", "r">>
T_Removed == <<"U+1F5D1", "U+FE0F", " ">>
T_Id == <<"U+1F194", " ">>
M_Arrow == <<"-", "-", "-">>
T_Arrow == <<"U+27A1", "U+FE0F", " ">>
M_Pulling == <<"P", "u", "l", "l", "i", "n", "g">>
T_Pulling == <<"U+2B07", "U+FE0F", " ">>
M_Downloaded == <<"D", "o", "w", "n", "l", "o", "a", "d", "e", "d">>
M_Extracting == <<"E", "x", "t", "r", "a", "c", "t", "i", "n", "g">>
T_Extracting == <<"U+1F4E6", " ">>
T_Exists == <<"U+267B", "U+FE0F", " ">>
M_UpToDate ==
  <<"I", "m", "a", "g", "e", " ", "i", "s", " ", "u", "p", " ", "t", "o",
    " ", "d", "a", "t", "e">>
M_Digest == <<"D", "i", "g", "e", "s", "t", ":">>
T_Digest == <<"U+1F50D", " ">>
M_Status == <<"S", "t", "a", "t", "u", "s", ":">>
T_Info == <<"U+2139", "U+FE0F", " ">>
AuxTag ==
  <<"U+1F3AF", " ", "U+6784", "U+5EFA", "U+5B8C", "U+6210", "U+FF0C",
    "U+955C", "U+50CF", "I", "D", ":", " ">>
ObjectObject ==
  <<"[", "o", "b", "j", "e", "c", "t", " ", "O", "b", "j", "e", "c", "t",
    "]">>
UndefinedText == <<"u", "n", "d", "e", "f", "i", "n", "e", "d">>
HttpErrorPull ==
  <<"H", "T", "T", "P", " ", "e", "r", "r", "o", "r", "!", " ", "s", "t",
    "a", "t", "u", "s", ":", " ">>
BodyNullPull ==
  <<"R", "e", "s", "p", "o", "n", "s", "e", " ", "b", "o", "d", "y", " ",
    "i", "s", " ", "n", "u", "l", "l">>
HttpErrorBuild ==
  <<"H", "T", "T", "P", "U+9519", "U+8BEF", "!", " ", "U+72B6", "U+6001",
    "U+7801", ":", " ">>
BodyNullBuild == <<"U+54CD", "U+5E94", "U+4F53", "U+4E3A", "U+7A7A">>

\* The value of an optional field that was never set.
Undefined == <<"undefined">>

RECURSIVE NumToChars(_)
NumToChars(n) ==
  LET d == <<"0", "1", "2", "3", "4", "5", "6", "7", "8", "9">>[(n % 10) + 1]
  IN IF n < 10 THEN <<d>> ELSE Append(NumToChars(n \div 10), d)

\* A value inside a template literal, or used as a property key.
ToStr(v) ==
  CASE v.t = "str" -> v.s
    [] v.t = "num" -> NumToChars(v.n)
    [] v.t = "obj" -> ObjectObject
    [] OTHER -> UndefinedText

\* {...base, ...o}: the members of o laid over those of base.
RECURSIVE Spread(_, _)
Spread(base, o) ==
  IF o = <<>> THEN base
  ELSE Spread(ObjSet(base, Head(o).k, Head(o).v), Tail(o))

\* Math.round(a / b) for b > 0: halves round up.
RoundDiv(a, b) == (2 * a + b) \div (2 * b)

Min(a, b) == IF a <= b THEN a ELSE b

\* ------------------------------------------------- pull progress aggregator
InitPullStatus ==
  [layers |-> [id \in {} |-> <<>>],
   overall |-> [percent |-> 0, downloaded |-> 0, total |-> 0, speed |-> 0],
   error |-> Undefined,
   completed |-> FALSE]

\* progressDetail.total / .current of one layer, 0 when absent or falsy.
LayerBytes(layer, field) ==
  LET pd == Lookup(layer, K_progressDetail)
      b == Get(pd, field)
  IN IF Truthy(pd) /\ Truthy(b) /\ b.t = "num" THEN b.n ELSE 0

LayerDone(layer) ==
  Lookup(layer, K_status) \in
    {JStr(DownloadComplete), JStr(PullComplete), JStr(AlreadyExists)}

RECURSIVE SumLayers(_, _, _)
SumLayers(layers, ids, field) ==
  IF ids = {} THEN 0
  ELSE LET id == CHOOSE x \in ids : TRUE
       IN LayerBytes(layers[id], field) + SumLayers(layers, ids \ {id}, field)

MergeLayer(layers, event) ==
  LET id == ToStr(Get(event, K_id))
      old == IF id \in DOMAIN layers THEN layers[id] ELSE <<>>
  IN [x \in (DOMAIN layers) \cup {id} |->
        IF x = id THEN Spread(old, event.o) ELSE layers[x]]

\* PullPercent without the cap at 100.
PullPercent_Uncapped(status, layers, totalBytes, downloadedBytes) ==
  LET layerCount == Cardinality(DOMAIN layers)
      completedLayers == Cardinality({id \in DOMAIN layers : LayerDone(layers[id])})
  IN IF totalBytes > 0
       THEN RoundDiv(downloadedBytes * 100, totalBytes)
     ELSE IF layerCount > 0
       THEN RoundDiv(completedLayers * 100, layerCount)
     ELSE status.overall.percent

\* PullPercent that takes the share of completed layers whenever a layer is
\* known.
PullPercent_ByLayers(status, layers, totalBytes, downloadedBytes) ==
  LET layerCount == Cardinality(DOMAIN layers)
      completedLayers == Cardinality({id \in DOMAIN layers : LayerDone(layers[id])})
  IN IF layerCount > 0
       THEN Min(100, RoundDiv(completedLayers * 100, layerCount))
     ELSE status.overall.percent

PullPercent(status, layers, totalBytes, downloadedBytes) ==
  LET layerCount == Cardinality(DOMAIN layers)
      completedLayers == Cardinality({id \in DOMAIN layers : LayerDone(layers[id])})
  IN IF totalBytes > 0
       THEN Min(100, RoundDiv(downloadedBytes * 100, totalBytes))
     ELSE IF layerCount > 0
       THEN Min(100, RoundDiv(completedLayers * 100, layerCount))
     ELSE status.overall.percent

\* _updatePullProgress(event, status, startTime, ...) at wall-clock time t.
UpdatePullProgress(event, status, startTime, t) ==
  IF Truthy(Get(event, K_error))
  THEN [status EXCEPT !.error = ToStr(Get(event, K_error))]
  ELSE
    LET layers == IF Truthy(Get(event, K_id))
                  THEN MergeLayer(status.layers, event)
                  ELSE status.layers
        totalBytes == SumLayers(layers, DOMAIN layers, K_total)
        downloadedBytes == SumLayers(layers, DOMAIN layers, K_current)
        elapsed == t - startTime
    IN [status EXCEPT
          !.layers = layers,
          !.overall = [percent |-> PullPercent(status, layers, totalBytes, downloadedBytes),
                       downloaded |-> downloadedBytes,
                       total |-> totalBytes,
                       speed |-> IF elapsed > 0
                                 THEN RoundDiv(downloadedBytes * 1000, elapsed)
                                 ELSE status.overall.speed]]

\* ------------------------------------------------ build progress aggregator
InitBuildStatus == [logs |-> <<>>, error |-> Undefined, completed |-> FALSE]

\* decodeUnicodeEscapes: every \uXXXX of the text becomes its character.
DecodeUnicodeEscapes(s) ==
  LET n == Len(s)
      IsEscape(i) == i + 5 <= n /\ s[i] = "\\" /\ s[i + 1] = "u" /\ IsHex4(s, i + 2)
      \* "" marks the five characters that follow the backslash of a match.
      at == [i \in 1..n |->
               IF IsEscape(i) THEN FromCharCode(SubSeq(s, i + 2, i + 5))
               ELSE IF \E j \in 1..5 : i - j >= 1 /\ IsEscape(i - j) THEN ""
               ELSE s[i]]
      Kept(c) == c # ""
  IN SelectSeq(at, Kept)

LowerHex == Digits \cup {"a", "b", "c", "d", "e", "f"}

\* The tag put before a line of build output; first matching marker wins.
StreamTag(c) ==
  IF StartsWith(c, M_Step) THEN T_Step
  ELSE IF Includes(c, M_Built) THEN T_Ok
  ELSE IF Includes(c, M_Tagged) THEN T_Tagged
  ELSE IF Includes(c, M_Running) THEN T_Running
  ELSE IF Includes(c, M_Removed) THEN T_Removed
  ELSE IF Len(c) = 12 /\ \A i \in 1..12 : c[i] \in LowerHex THEN T_Id
  ELSE IF Includes(c, M_Arrow) THEN T_Arrow
  ELSE <<>>

\* The tag put before a pull-during-build status line.
StatusTag(s) ==
  IF Includes(s, M_Pulling) THEN T_Pulling
  ELSE IF Includes(s, M_Downloaded) THEN T_Ok
  ELSE IF Includes(s, M_Extracting) THEN T_Extracting
  ELSE IF Includes(s, PullComplete) THEN T_Ok
  ELSE IF Includes(s, AlreadyExists) THEN T_Exists
  ELSE IF Includes(s, M_UpToDate) THEN T_Ok
  ELSE IF Includes(s, M_Digest) THEN T_Digest
  ELSE IF Includes(s, M_Status) THEN T_Info
  ELSE <<>>

\* Object.keys(event) that are none of the known fields, as "k: v" texts.
KnownFields ==
  {K_stream, K_status, K_id, K_progress, K_error, K_errorDetail, K_aux}

RECURSIVE OtherData(_, _)
OtherData(o, first) ==
  IF o = <<>> THEN <<>>
  ELSE IF Head(o).k \in KnownFields THEN OtherData(Tail(o), first)
  ELSE (IF first THEN <<>> ELSE <<",", " ">>)
       \o Head(o).k \o <<":", " ">> \o ToStr(Head(o).v)
       \o OtherData(Tail(o), FALSE)

\* Lines appended for event.stream; the last branch of the source (a content
\* that is a lone newline or empty) returns from the whole update.
StreamLines(event) ==
  LET c == DecodeUnicodeEscapes(Trim(Get(event, K_stream).s))
  IN IF ~Truthy(Get(event, K_stream)) \/ c = <<>> THEN <<>>
     ELSE <<StreamTag(c) \o c>>

StatusLines(event) ==
  LET s == Get(event, K_status)
      withId == IF Truthy(Get(event, K_id))
                THEN ToStr(Get(event, K_id)) \o <<":", " ">> \o ToStr(s)
                ELSE ToStr(s)
      line == IF Truthy(Get(event, K_progress))
              THEN withId \o <<" ">> \o ToStr(Get(event, K_progress))
              ELSE withId
  IN IF ~Truthy(s) THEN <<>> ELSE <<StatusTag(s.s) \o line>>

AuxLines(event) ==
  LET aux == Get(event, K_aux)
  IN IF Truthy(aux) /\ Truthy(Get(aux, K_ID))
     THEN <<AuxTag \o ToStr(Get(aux, K_ID))>>
     ELSE <<>>

OtherLines(event) ==
  LET data == IF event.t = "obj" THEN OtherData(event.o, TRUE) ELSE <<>>
  IN IF ~Truthy(Get(event, K_stream)) /\ ~Truthy(Get(event, K_status))
        /\ ~Truthy(Get(event, K_error)) /\ ~Truthy(Get(event, K_aux))
        /\ data # <<>>
     THEN <<T_Info \o data>>
     ELSE <<>>

\* A truthy stream or status that is no string has no trim()/includes():
\* the update throws a TypeError, after the lines pushed before that point.
StreamThrows(event) ==
  Truthy(Get(event, K_stream)) /\ Get(event, K_stream).t # "str"

StatusThrows(event) ==
  Truthy(Get(event, K_status)) /\ Get(event, K_status).t # "str"

\* _updateBuildProgress(event, status): the new status and whether it threw.
UpdateBuildProgress(event, status) ==
  IF Truthy(Get(event, K_error)) \/ Truthy(Get(event, K_errorDetail))
  THEN
    LET msg == IF Truthy(Get(event, K_error)) THEN ToStr(Get(event, K_error))
               ELSE IF Truthy(Get(Get(event, K_errorDetail), K_message))
                 THEN ToStr(Get(Get(event, K_errorDetail), K_message))
               ELSE BuildErrorDefault
    IN [threw |-> FALSE,
        status |-> [status EXCEPT !.error = msg,
                                  !.logs = Append(@, ErrorTag \o msg)]]
  ELSE IF StreamThrows(event) THEN [threw |-> TRUE, status |-> status]
  ELSE IF StatusThrows(event)
    THEN [threw |-> TRUE,
          status |-> [status EXCEPT !.logs = @ \o StreamLines(event)]]
  ELSE [threw |-> FALSE,
        status |-> [status EXCEPT !.logs = @ \o StreamLines(event)
                                             \o StatusLines(event)
                                             \o AuxLines(event)
                                             \o OtherLines(event)]]

\* ------------------------------------------------------ splitJsonObjects
\* The loop's variables before the first character; i is the (1-based)
\* position of the character the next turn reads.
SplitStart ==
  [i |-> 1, objects |-> <<>>, current |-> <<>>, braceCount |-> 0,
   inString |-> FALSE, escapeNext |-> FALSE]

\* One turn of the loop: the variables after the character at st.i is read.
SplitStep(line, st) ==
  LET char == line[st.i]
      cur == Append(st.current, char)
      nxt == [st EXCEPT !.i = @ + 1, !.current = cur]
  IN IF st.escapeNext THEN [nxt EXCEPT !.escapeNext = FALSE]
     ELSE IF char = "\\" THEN [nxt EXCEPT !.escapeNext = TRUE]
     ELSE IF char = "\"" THEN [nxt EXCEPT !.inString = ~@]
     ELSE IF ~st.inString /\ char = "{" THEN [nxt EXCEPT !.braceCount = @ + 1]
     ELSE IF ~st.inString /\ char = "}"
       THEN IF st.braceCount - 1 = 0
            THEN [nxt EXCEPT !.objects = Append(@, Trim(cur)),
                             !.current = <<>>,
                             !.braceCount = 0]
            ELSE [nxt EXCEPT !.braceCount = @ - 1]
     ELSE nxt

\* The loop up to position hi: turns are taken from st, in order, until i
\* passes hi. A range of several characters is read as its first half and
\* then the rest from the state the first half ends in.
RECURSIVE SplitScan(_, _, _)
SplitScan(line, hi, st) ==
  IF st.i > hi THEN st
  ELSE IF st.i = hi THEN SplitStep(line, st)
  ELSE SplitScan(line, hi, SplitScan(line, (st.i + hi) \div 2, st))

\* SplitJsonObjects without the text left after the last closing brace.
SplitJsonObjects_NoRest(line) == SplitScan(line, Len(line), SplitStart).objects

SplitJsonObjects(line) ==
  LET st == SplitScan(line, Len(line), SplitStart)
  IN IF Trim(st.current) # <<>>
     THEN Append(st.objects, Trim(st.current))
     ELSE st.objects

\* ------------------------------------------------------------- callbacks
\* What the caller's callbacks observe, in the order of the invocations.
\* onProgress receives { ...status }; "after" tells what the call follows: an
\* applied event ("event"), a text JSON.parse rejected ("failure", with the
\* text), an update that threw ("threw"), or the end of the operation.
OnProgress(status, after, raw) ==
  [cb |-> "onProgress", arg |-> status, after |-> after, raw |-> raw]
OnComplete == [cb |-> "onComplete", arg |-> <<>>, after |-> "end", raw |-> <<>>]
OnError(msg) == [cb |-> "onError", arg |-> msg, after |-> "end", raw |-> <<>>]

\* The part of an operation that line processing reads and writes:
\*   status, calls (callback invocations), events (the values JSON.parse
\*   returned), lastUpdate and lastDownloaded (the pull's speed throttle).

\* ------------------------------------------------------ pull: one line
\* The end of the try block: the status goes to onProgress.
PullReport(c, event, s, lastUpd, lastDl) ==
  [status |-> s,
   calls |-> Append(c.calls, OnProgress(s, "event", <<>>)),
   events |-> Append(c.events, event),
   lastUpdate |-> lastUpd,
   lastDownloaded |-> lastDl]

\* After _updatePullProgress gave s1 at time t: the speed is recomputed when
\* more than a second passed since the last recomputation.
PullThrottle(c, event, s1, t) ==
  IF t - c.lastUpdate > 1000
  THEN PullReport(c, event,
                  [s1 EXCEPT !.overall.speed =
                     RoundDiv((s1.overall.downloaded - c.lastDownloaded) * 1000,
                              t - c.lastUpdate)],
                  t, s1.overall.downloaded)
  ELSE PullReport(c, event, s1, c.lastUpdate, c.lastDownloaded)

\* r is what JSON.parse(line) gave; a SyntaxError is only logged.
PullParsed(c, r, startTime, t) ==
  IF ~r.ok THEN c
  ELSE PullThrottle(c, r.v, UpdatePullProgress(r.v, c.status, startTime, t), t)

\* The body of `for (const line of lines)` in pullImageWithProgress, at
\* wall-clock time t.
PullLine(c, line, startTime, t) ==
  IF Trim(line) = <<>> THEN c
  ELSE PullParsed(c, JsonParse(line), startTime, t)

\* The residual text after the stream ended: parsed and applied, with no
\* speed throttle.
PullResidualParsed(c, r, startTime, t) ==
  IF ~r.ok THEN c
  ELSE PullReport(c, r.v, UpdatePullProgress(r.v, c.status, startTime, t),
                  c.lastUpdate, c.lastDownloaded)

PullResidual(c, text, startTime, t) ==
  IF Trim(text) = <<>> THEN c
  ELSE PullResidualParsed(c, JsonParse(text), startTime, t)

\* ----------------------------------------------- build: processDockerApiLine
\* BuildReport without the call of onProgress.
BuildReport_Silent(c, event, s) ==
  [c EXCEPT !.status = s, !.events = Append(@, event)]

\* The try block succeeded with status s.
BuildReport(c, event, s) ==
  [c EXCEPT !.status = s,
            !.calls = Append(@, OnProgress(s, "event", <<>>)),
            !.events = Append(@, event)]

\* The catch block: the raw text goes to the log, onto the status s the
\* failed try block left.
BuildRaw(c, jsonStr, s, after, evs) ==
  [c EXCEPT !.status = s,
            !.calls = Append(@, OnProgress(s, after, jsonStr)),
            !.events = evs]

RawLine(jsonStr) == RawDataTag \o DecodeUnicodeEscapes(jsonStr)

\* u is what _updateBuildProgress gave for the parsed event.
BuildUpdated(c, jsonStr, event, u) ==
  IF ~u.threw THEN BuildReport(c, event, u.status)
  ELSE BuildRaw(c, jsonStr,
                [u.status EXCEPT !.logs = Append(@, RawLine(jsonStr))],
                "threw", Append(c.events, event))

\* BuildParsed with a rejected text recorded as the status' error.
BuildParsed_Fatal(c, jsonStr, r) ==
  IF r.ok THEN BuildUpdated(c, jsonStr, r.v, UpdateBuildProgress(r.v, c.status))
  ELSE BuildRaw(c, jsonStr,
                [c.status EXCEPT !.logs = Append(@, RawLine(jsonStr)),
                                 !.error = jsonStr],
                "failure", c.events)

\* BuildParsed with the raw line put at the head of the log.
BuildParsed_Prepend(c, jsonStr, r) ==
  IF r.ok THEN BuildUpdated(c, jsonStr, r.v, UpdateBuildProgress(r.v, c.status))
  ELSE BuildRaw(c, jsonStr,
                [c.status EXCEPT !.logs = <<RawLine(jsonStr)>> \o @],
                "failure", c.events)

\* r is what JSON.parse(jsonStr) gave.
BuildParsed(c, jsonStr, r) ==
  IF r.ok THEN BuildUpdated(c, jsonStr, r.v, UpdateBuildProgress(r.v, c.status))
  ELSE BuildRaw(c, jsonStr,
                [c.status EXCEPT !.logs = Append(@, RawLine(jsonStr))],
                "failure", c.events)

\* One substring of a line: parsed and applied, or logged as raw data.
BuildObject(c, jsonStr) ==
  IF Trim(jsonStr) = <<>> THEN c
  ELSE BuildParsed(c, jsonStr, JsonParse(jsonStr))

RECURSIVE BuildObjects(_, _)
BuildObjects(c, objs) ==
  IF objs = <<>> THEN c
  ELSE BuildObjects(BuildObject(c, Head(objs)), Tail(objs))

ProcessDockerApiLine(c, line) == BuildObjects(c, SplitJsonObjects(line))

\* The body of `for (const line of lines)` in buildImage.
BuildLine(c, line) ==
  IF Trim(line) = <<>> THEN c ELSE ProcessDockerApiLine(c, Trim(line))

\* ------------------------------------------------------- the read loops
RECURSIVE PullLines(_, _, _, _)
PullLines(c, lines, startTime, t) ==
  IF lines = <<>> THEN c
  ELSE PullLines(PullLine(c, Head(lines), startTime, t), Tail(lines), startTime, t)

RECURSIVE BuildLines(_, _)
BuildLines(c, lines) ==
  IF lines = <<>> THEN c
  ELSE BuildLines(BuildLine(c, Head(lines)), Tail(lines))

\* lines = receivedText.split('\n'); receivedText = lines.pop() || ''
CompleteLines(text) ==
  LET lines == SplitLines(text) IN SubSeq(lines, 1, Len(lines) - 1)

LastLine(text) == LET lines == SplitLines(text) IN lines[Len(lines)]

\* ----------------------------------------------------------------- inputs
FetchFailedText ==
  <<"F", "a", "i", "l", "e", "d", " ", "t", "o", " ", "f", "e", "t", "c",
    "h">>
ReadFailedText ==
  <<"n", "e", "t", "w", "o", "r", "k", " ", "e", "r", "r", "o", "r">>
CallbackFailedText ==
  <<"c", "a", "l", "l", "b", "a", "c", "k", " ", "f", "a", "i", "l", "e",
    "d">>
QuotaExceededText ==
  <<"Q", "u", "o", "t", "a", "E", "x", "c", "e", "e", "d", "e", "d", "E",
    "r", "r", "o", "r">>
Status500 == <<"5", "0", "0">>
P_stream ==
  <<"{", "\"", "s", "t", "r", "e", "a", "m", "\"", ":", "\"", "a", "\"", "}">>
P_streamU ==
  <<"{", "\"", "s", "t", "r", "e", "a", "m", "\"", ":", "\"", "C3", "A9", "\"",
    "}">>
P_error ==
  <<"{", "\"", "e", "r", "r", "o", "r", "\"", ":", "\"", "e", "\"", "}">>
P_bad == <<"x">>
P_newline == <<"\n">>
P_escape == <<"\\", "u", "0", "0", "4", "1">>
P_layer == <<"{", "\"", "i", "d", "\"", ":", "\"", "a", "\"", "}">>
P_layerU == <<"{", "\"", "i", "d", "\"", ":", "\"", "C3", "A9", "\"", "}">>
B_message ==
  <<"{", "\"", "m", "e", "s", "s", "a", "g", "e", "\"", ":", "\"", "m", "\"",
    "}">>
B_text == <<"o", "o", "p", "s">>

\* The texts a response body is made of: an event, an event with a two-byte
\* character, an error event, a malformed text (for the build one with a
\* \uXXXX escape), a line break.
Pieces(k) ==
  IF k = "pull"
  THEN {P_layer, P_layerU, P_error, P_bad, P_newline}
  ELSE {P_stream, P_streamU, P_error, P_escape, P_newline}

\* The sequences of at most n pieces.
RECURSIVE PieceSeqs(_, _)
PieceSeqs(k, n) ==
  IF n = 0 THEN {<<>>}
  ELSE LET shorter == PieceSeqs(k, n - 1)
       IN shorter \cup {Append(s, p) : s \in shorter, p \in Pieces(k)}

RECURSIVE Flatten(_)
Flatten(ss) == IF ss = <<>> THEN <<>> ELSE Head(ss) \o Flatten(Tail(ss))

\* How the HTTP exchange goes: a streamed 2xx response, a rejected fetch,
\* a non-2xx status, a response without a body.
Responses == {"ok", "reject", "status", "nobody"}

\* Bodies of a non-2xx build response.
ErrorBodies == {B_message, B_text, <<>>}

\* Milliseconds the wall clock advances per tick.
ClockStep == 1100

\* ------------------------------------------------------------------ state
VARIABLES
  pc,             \* "idle", "fetch", "errtext", "read", "done"
  kind,           \* "none", "pull", "build"
  registry,       \* _activePullRequests / _activeBuildRequests: token -> entry
  token,          \* requestId / buildId of the operation
  resp,           \* how the HTTP exchange of the operation goes
  pieces,         \* the texts the response body is made of
  stream,         \* the bytes of the response body
  pos,            \* how many of them were delivered
  receivedText,   \* the read loop's line buffer
  status,         \* the PullStatus / BuildStatus record
  lastUpdate,     \* pull: time of the last speed recomputation
  lastDownloaded, \* pull: bytes at the last speed recomputation
  startTime,      \* pull: Date.now() at the start
  now,            \* wall clock, ms
  history,        \* stored Dockerfile history, newest first
  outcome,        \* "pending", "resolved", "rejected": the returned promise
  calls,          \* callback invocations, in order
  events,         \* values JSON.parse returned, in order
  received,       \* all text decoded so far
  agg,            \* the pull aggregator fed with events directly
  tar,            \* a recipe and the archive createMinimalTar made of it
  ops,            \* several operations sharing the registries and the clock
  blog,           \* the build aggregator fed with events directly
  tarEntry,       \* one addTarEntry call and the buffer it wrote
  split,          \* one splitJsonObjects call and its result
  hist,           \* the Dockerfile history store and the builds that add to it
  spd             \* the pull's line handler called at chosen times

\* The variables the steps of a streamed operation leave alone.
auxVars == <<agg, tar, ops, blog, tarEntry, split, hist, spd>>

\* The variables of the streamed operation.
mainVars ==
  <<pc, kind, registry, token, resp, pieces, stream, pos, receivedText,
    status, lastUpdate, lastDownloaded, startTime, now, history, outcome, calls,
    events, received>>

vars == <<mainVars, auxVars>>

\* The single operation's cancel token identity.
OpId == 1

NoToken == [name |-> "none", t |-> 0]
PullToken(t) == [name |-> "image", t |-> t]
BuildToken(t) == [name |-> "build", t |-> t]

HistoryLimit == 20

Init ==
  /\ pc = "idle"
  /\ kind = "none"
  /\ registry = [k \in {} |-> OpId]
  /\ token = NoToken
  /\ resp = "ok"
  /\ pieces = <<>>
  /\ stream = <<>>
  /\ pos = 0
  /\ receivedText = <<>>
  /\ status = InitBuildStatus
  /\ lastUpdate = 0
  /\ lastDownloaded = 0
  /\ startTime = 0
  /\ now = 0
  /\ history = <<>>
  /\ outcome = "pending"
  /\ calls = <<>>
  /\ events = <<>>
  /\ received = <<>>
  /\ agg = [status |-> InitPullStatus, last |-> 0, fed |-> 0, monotone |-> TRUE,
            before |-> InitPullStatus, event |-> JUndef]
  /\ tar = [made |-> FALSE, recipe |-> <<>>, buffer |-> <<>>, offset |-> 0]
  /\ ops = [registry |-> [k \in {"pull", "build"} |-> <<>>],
            clock |-> 0,
            op |-> [o \in {1, 2} |->
                     [pc |-> "idle", kind |-> "none", token |-> NoToken,
                      outcome |-> "pending", error |-> Undefined]],
            cancels |-> <<>>]
  /\ blog = [status |-> InitBuildStatus, fed |-> 0, event |-> JUndef,
             before |-> InitBuildStatus]
  /\ tarEntry = [made |-> FALSE, filename |-> <<>>, content |-> <<>>,
                 t |-> 0, at |-> 0, buffer |-> <<>>, offset |-> 0]
  /\ split = [made |-> FALSE, line |-> <<>>, objects |-> <<>>]
  /\ hist = [entries |-> <<>>, clock |-> 0, builds |-> 0,
             last |-> [op |-> "none", before |-> <<>>, result |-> "none",
                       at |-> 0]]
  /\ spd = [ctx |-> [status |-> InitPullStatus, calls |-> <<>>, events |-> <<>>,
                     lastUpdate |-> 0, lastDownloaded |-> 0],
            now |-> 0,
            reports |-> <<>>]

Ctx ==
  [status |-> status, calls |-> calls, events |-> events,
   lastUpdate |-> lastUpdate, lastDownloaded |-> lastDownloaded]

SetCtx(c) ==
  /\ status' = c.status
  /\ calls' = c.calls
  /\ events' = c.events
  /\ lastUpdate' = c.lastUpdate
  /\ lastDownloaded' = c.lastDownloaded

RegistryPut(reg, tok, id) ==
  [k \in (DOMAIN reg) \cup {tok} |-> IF k = tok THEN id ELSE reg[k]]

\* RegistryDelete that deletes nothing.
RegistryDelete_Keep(reg, tok) == reg

RegistryDelete(reg, tok) == [k \in (DOMAIN reg) \ {tok} |-> reg[k]]

\* this._active...Requests.get(id)?.cancelToken !== cancelToken
CancelDetected == ~(token \in DOMAIN registry /\ registry[token] = OpId)

CancelledMsg == IF kind = "pull" THEN PullCancelledMsg ELSE BuildCancelledMsg
FailedMsg == IF kind = "pull" THEN PullFailedMsg ELSE BuildFailedMsg

\* error.message || '<fallback>'
ErrorText(msg) == IF msg # <<>> THEN msg ELSE FailedMsg

\* The catch block of pullImageWithProgress / buildImage for a thrown error
\* with message msg: the final status s, onProgress, onError.
CatchReport(c, s, msg) ==
  [c EXCEPT !.status = s,
            !.calls = @ \o <<OnProgress(s, "end", <<>>), OnError(msg)>>]

\* CatchCtx that leaves completed as it was.
CatchCtx_Open(c, msg) ==
  CatchReport(c, [c.status EXCEPT !.error = ErrorText(msg)], msg)

\* CatchCtx that sets completed back to false.
CatchCtx_Reopened(c, msg) ==
  CatchReport(c, [c.status EXCEPT !.error = ErrorText(msg), !.completed = FALSE], msg)

CatchCtx(c, msg) ==
  CatchReport(c, [c.status EXCEPT !.error = ErrorText(msg), !.completed = TRUE], msg)

\* The registry after the catch block: only the pull deletes its entry there.
CatchRegistry(reg) ==
  IF kind = "pull" THEN RegistryDelete(reg, token) ELSE reg

\* An error with message msg is thrown inside the try block; the promise
\* rejects.
Catch(c, msg) ==
  /\ SetCtx(CatchCtx(c, msg))
  /\ registry' = CatchRegistry(registry)
  /\ pc' = "done"
  /\ outcome' = "rejected"

\* pullImageWithProgress(imageName, options) up to `await fetch(...)`.
StartPull ==
  /\ pc = "idle"
  /\ kind' = "pull"
  /\ status' = InitPullStatus
  /\ startTime' = now
  /\ lastUpdate' = now
  /\ lastDownloaded' = 0
  /\ token' = PullToken(now)
  /\ registry' = RegistryPut(registry, PullToken(now), OpId)
  /\ \E r \in Responses :
       /\ resp' = r
       /\ IF r = "ok" THEN pieces' \in PieceSeqs("pull", MaxPieces)
          ELSE pieces' = <<>>
  /\ stream' = Flatten(pieces')
  /\ pc' = "fetch"
  /\ UNCHANGED <<pos, receivedText, now, history, outcome, calls, events,
                 received>>
  /\ UNCHANGED auxVars

\* buildImage(options, callbacks) up to `await fetch(...)`.
StartBuild ==
  /\ pc = "idle"
  /\ kind' = "build"
  /\ status' = InitBuildStatus
  /\ token' = BuildToken(now)
  /\ registry' = RegistryPut(registry, BuildToken(now), OpId)
  /\ \E r \in Responses :
       /\ resp' = r
       /\ IF r = "ok" THEN pieces' \in PieceSeqs("build", MaxPieces)
          ELSE IF r = "status" THEN pieces' \in {<<b>> : b \in ErrorBodies}
          ELSE pieces' = <<>>
  /\ stream' = Flatten(pieces')
  /\ pc' = "fetch"
  /\ UNCHANGED <<pos, receivedText, lastUpdate, lastDownloaded, startTime,
                 now, history, outcome, calls, events, received>>
  /\ UNCHANGED auxVars

\* The message of the error buildImage throws for a non-2xx response whose
\* body text is errorText: the error made from the body's message is thrown
\* inside the inner try and caught by catch (jsonError); the error made from
\* the raw text is thrown there, inside the outer try, and caught by
\* catch (textError), which only logs; the status-code error is what leaves.
BuildHttpError(errorText, code) ==
  LET parsed == JsonParse(errorText)
      innerThrows == ~parsed.ok \/ Truthy(Get(parsed.v, K_message))
      catchThrows == innerThrows /\ errorText # <<>>
  IN IF catchThrows THEN HttpErrorBuild \o code ELSE HttpErrorBuild \o code

\* `await fetch(...)` settles; the code runs on to the next await.
FetchSettle ==
  /\ pc = "fetch"
  /\ IF resp = "reject" THEN Catch(Ctx, FetchFailedText)
     ELSE IF resp = "status" /\ kind = "pull"
       THEN Catch(Ctx, HttpErrorPull \o Status500)
     ELSE IF resp = "status"
       THEN /\ pc' = "errtext"
            /\ UNCHANGED <<registry, status, lastUpdate, lastDownloaded,
                           outcome, calls, events>>
     ELSE IF resp = "nobody"
       THEN Catch(Ctx, IF kind = "pull" THEN BodyNullPull ELSE BodyNullBuild)
     ELSE IF CancelDetected THEN Catch(Ctx, CancelledMsg)
     ELSE /\ pc' = "read"
          /\ UNCHANGED <<registry, status, lastUpdate, lastDownloaded,
                         outcome, calls, events>>
  /\ UNCHANGED <<kind, token, resp, pieces, stream, pos, receivedText, startTime,
                 now, history, received>>
  /\ UNCHANGED auxVars

\* buildImage: `await response.text()` of a non-2xx response settles.
ErrorTextSettle ==
  /\ pc = "errtext"
  /\ Catch(Ctx, BuildHttpError(stream, Status500))
  /\ UNCHANGED <<kind, token, resp, pieces, stream, pos, receivedText, startTime,
                 now, history, received>>
  /\ UNCHANGED auxVars

\* One pass of the loop body after `await reader.read()` gave a chunk.
ChunkCtx(c, text, t) ==
  IF kind = "pull" THEN PullLines(c, CompleteLines(text), startTime, t)
  ELSE BuildLines(c, CompleteLines(text))

\* The next pass of the loop: cancelled, or on to the next read.
AfterChunk(c) ==
  IF CancelDetected THEN Catch(c, CancelledMsg)
  ELSE /\ SetCtx(c)
       /\ UNCHANGED <<pc, registry, outcome>>

\* The loop body on the decoded chunk.
TakeChunk(chunk) ==
  /\ received' = received \o chunk
  /\ receivedText' = LastLine(receivedText \o chunk)
  /\ AfterChunk(ChunkCtx(Ctx, receivedText \o chunk, now))

\* reader.read() resolves with the next k bytes; then the loop's next pass
\* checks for cancellation and awaits the next read.
ReadChunk ==
  /\ pc = "read"
  /\ \E k \in 1..(Len(stream) - pos) :
       /\ pos' = pos + k
       /\ TakeChunk(TextDecode(SubSeq(stream, pos + 1, pos + k)))
  /\ UNCHANGED <<kind, token, resp, pieces, stream, startTime, now, history>>
  /\ UNCHANGED auxVars

\* reader.read() rejects: the connection broke.
ReadFail ==
  /\ pc = "read"
  /\ \E msg \in {ReadFailedText, <<>>} : Catch(Ctx, msg)
  /\ UNCHANGED <<kind, token, resp, pieces, stream, pos, receivedText, startTime,
                 now, history, received>>
  /\ UNCHANGED auxVars

\* ResidualCtx that drops the residual text.
ResidualCtx_Dropped(c, text, t) == c

\* The residual text after the loop.
ResidualCtx(c, text, t) ==
  IF kind = "pull" THEN PullResidual(c, text, startTime, t)
  ELSE IF Trim(text) # <<>> THEN ProcessDockerApiLine(c, Trim(text))
  ELSE c

\* saveHistory(history with the new entry first): at most 20 entries.
\* AddHistory that puts the new entry after the others.
AddHistory_AtEnd(h, entry) ==
  LET all == Append(h, entry) IN SubSeq(all, 1, Min(Len(all), HistoryLimit))

AddHistory(h, entry) ==
  LET all == <<entry>> \o h IN SubSeq(all, 1, Min(Len(all), HistoryLimit))

\* What follows the loop: status.completed = true and onProgress.
FinishReport(c, s) ==
  [c EXCEPT !.status = s, !.calls = Append(@, OnProgress(s, "end", <<>>))]

Finish(c) == FinishReport(c, [c.status EXCEPT !.completed = TRUE])

Complete(c) == [c EXCEPT !.calls = Append(@, OnComplete)]

\* The end of the try block, c being the state after onComplete was called.
\* onComplete is the caller's code and may throw; the history write may fail
\* on a full store, after the registry entry was deleted.  Both happen
\* inside the try block.
Settle(c, completeThrows, writeFails) ==
  IF completeThrows
  THEN /\ ~writeFails
       /\ Catch(c, CallbackFailedText)
       /\ UNCHANGED history
  ELSE IF kind = "build" /\ writeFails
  THEN /\ SetCtx(CatchCtx(c, QuotaExceededText))
       /\ registry' = CatchRegistry(RegistryDelete(registry, token))
       /\ pc' = "done"
       /\ outcome' = "rejected"
       /\ UNCHANGED history
  ELSE /\ ~writeFails
       /\ SetCtx(c)
       /\ registry' = RegistryDelete(registry, token)
       /\ history' = IF kind = "build"
                     THEN AddHistory(history, [name |-> "tag", timestamp |-> now])
                     ELSE history
       /\ pc' = "done"
       /\ outcome' = "resolved"

\* reader.read() resolves with done: the residual text, completion, the
\* callbacks, the registry and (build) the history.
ReadDone ==
  /\ pc = "read"
  /\ pos = Len(stream)
  /\ \E completeThrows \in BOOLEAN, writeFails \in BOOLEAN :
       Settle(Complete(Finish(ResidualCtx(Ctx, receivedText, now))),
              completeThrows, writeFails)
  /\ UNCHANGED <<kind, token, resp, pieces, stream, pos, receivedText, startTime,
                 now, received>>
  /\ UNCHANGED auxVars

\* cancelPullImage(requestId) / cancelBuild(buildId) with the operation's
\* token while its entry is in the registry: the entry is deleted (and the
\* call returns true).
Cancel ==
  /\ token \in DOMAIN registry
  /\ registry' = RegistryDelete(registry, token)
  /\ UNCHANGED <<pc, kind, token, resp, pieces, stream, pos, receivedText, status,
                 lastUpdate, lastDownloaded, startTime, now, history, outcome,
                 calls, events, received>>
  /\ UNCHANGED auxVars

\* The wall clock advances while a pull waits for the network.
Tick ==
  /\ kind = "pull"
  /\ pc \in {"fetch", "read"}
  /\ now < MaxTicks * ClockStep
  /\ now' = now + ClockStep
  /\ UNCHANGED <<pc, kind, registry, token, resp, pieces, stream, pos, receivedText,
                 status, lastUpdate, lastDownloaded, startTime, history,
                 outcome, calls, events, received>>
  /\ UNCHANGED auxVars

Next ==
  \/ StartPull
  \/ StartBuild
  \/ FetchSettle
  \/ ErrorTextSettle
  \/ ReadChunk
  \/ ReadFail
  \/ ReadDone
  \/ Cancel
  \/ Tick

Spec == Init /\ [][Next]_vars

\* ------------------------------------------- the pull aggregator on its own
\* _updatePullProgress fed with progress events directly: layer events with
\* or without a status and byte counts, and an error event.
LayerIds == {<<"a">>, <<"b">>}

LayerStatuses == {<<>>, DownloadComplete}

ByteCounts ==
  {[has |-> FALSE, current |-> 0, total |-> 0]} \cup
  {[has |-> TRUE, current |-> c, total |-> t] : c \in 0..MaxBytes, t \in 0..MaxBytes}

LayerEvent(id, st, pd) ==
  JObj(<<[k |-> K_id, v |-> JStr(id)]>>
       \o (IF st # <<>> THEN <<[k |-> K_status, v |-> JStr(st)]>> ELSE <<>>)
       \o (IF pd.has
           THEN <<[k |-> K_progressDetail,
                   v |-> JObj(<<[k |-> K_current, v |-> JNum(pd.current)],
                                [k |-> K_total, v |-> JNum(pd.total)]>>)]>>
           ELSE <<>>))

ProgressEvents ==
  {LayerEvent(id, st, pd) : id \in LayerIds, st \in LayerStatuses, pd \in ByteCounts}
    \cup {JObj(<<[k |-> K_error, v |-> JStr(<<"e">>)]>>),
          JObj(<<[k |-> K_status, v |-> JStr(<<"s">>)]>>)}

\* No layer the status knew before has fewer downloaded or total bytes in
\* the layers after the event.
KeepsBytes(before, after) ==
  \A id \in DOMAIN before :
    /\ LayerBytes(after[id], K_current) >= LayerBytes(before[id], K_current)
    /\ LayerBytes(after[id], K_total) >= LayerBytes(before[id], K_total)

FeedNext(event, s) ==
  [status |-> s,
   last |-> agg.status.overall.percent,
   fed |-> agg.fed + 1,
   monotone |-> agg.monotone /\ KeepsBytes(agg.status.layers, s.layers),
   before |-> agg.status,
   event |-> event]

\* One call of _updatePullProgress(event, status, startTime, ...).
FeedProgress ==
  /\ agg.fed < MaxEvents
  /\ \E event \in ProgressEvents :
       agg' = FeedNext(event, UpdatePullProgress(event, agg.status, 0, 0))
  /\ UNCHANGED <<mainVars, tar, ops, blog, tarEntry, split, hist, spd>>

NextProgress == FeedProgress

SpecProgress == Init /\ [][NextProgress]_vars

\* ------------------------------------------------- the build context archive
\* createMinimalTar and its helpers.  Bytes are numbers 0..255 here.
CopyWord == <<"C", "O", "P", "Y">>
DockerfileName == <<"D", "o", "c", "k", "e", "r", "f", "i", "l", "e">>
DistName == <<"d", "i", "s", "t">>
DistIndexName ==
  <<"d", "i", "s", "t", "/", "i", "n", "d", "e", "x", ".", "h", "t", "m",
    "l">>
DotSlash == <<".", "/">>
DotHtml == <<".", "h", "t", "m", "l">>
DotHtm == <<".", "h", "t", "m">>
DotTxt == <<".", "t", "x", "t">>
PackageJsonName ==
  <<"p", "a", "c", "k", "a", "g", "e", ".", "j", "s", "o", "n">>
RequirementsName ==
  <<"r", "e", "q", "u", "i", "r", "e", "m", "e", "n", "t", "s", ".", "t",
    "x", "t">>
Mode644 == <<"0", "0", "0", "0", "6", "4", "4">>
Id0 == <<"0", "0", "0", "0", "0", "0", "0">>
\* The synthesized contents, each represented by a fragment of its text.
HtmlSample ==
  <<"<", "!", "D", "O", "C", "T", "Y", "P", "E", " ", "h", "t", "m", "l",
    ">">>
TxtSample == <<"D", "o", "c", "k", "e", "r", " ", "A", "d", "m", "i", "n">>
PackageJsonSample == <<"{", "}">>
RequirementsSample == <<"#", " ", "P", "y", "t", "h", "o", "n">>

BlockSize == 512
TrailerSize == 1024
NameLimit == 100

\* The printable ASCII characters, from code 32 on.
Ascii ==
  <<" ", "!", "\"", "#", "$", "%", "&", "'", "(", ")", "*", "+", ",", "-",
    ".", "/", "0", "1", "2", "3", "4", "5", "6", "7", "8", "9", ":", ";",
    "<", "=", ">", "?", "@", "A", "B", "C", "D", "E", "F", "G", "H", "I",
    "J", "K", "L", "M", "N", "O", "P", "Q", "R", "S", "T", "U", "V", "W",
    "X", "Y", "Z", "[", "\\", "]", "^", "_", "U+0060", "a", "b", "c", "d", "e",
    "f", "g", "h", "i", "j", "k", "l", "m", "n", "o", "p", "q", "r", "s",
    "t", "u", "v", "w", "x", "y", "z", "{", "|", "}", "~">>

\* The UTF-8 bytes of one character of the modelled alphabet.
Utf8Char(c) ==
  CASE c = "\n" -> <<10>>
    [] c = "\t" -> <<9>>
    [] c = "\r" -> <<13>>
    [] c = "U+00E9" -> <<195, 169>>
    [] c = "U+FFFD" -> <<239, 191, 189>>
    [] OTHER -> <<31 + (CHOOSE i \in DOMAIN Ascii : Ascii[i] = c)>>

\* The bytes of the characters lo..hi of the text.
RECURSIVE EncodeRange(_, _, _)
EncodeRange(text, lo, hi) ==
  IF lo > hi THEN <<>>
  ELSE IF lo = hi THEN Utf8Char(text[lo])
  ELSE EncodeRange(text, lo, (lo + hi) \div 2)
         \o EncodeRange(text, (lo + hi) \div 2 + 1, hi)

\* new TextEncoder().encode(text)
TextEncode(text) == EncodeRange(text, 1, Len(text))

\* The index after the longest run, from index i on, of white space
\* (space = TRUE) or of other characters (space = FALSE).
RunEnd(text, i, space) ==
  LET stops == {j \in i..Len(text) : (text[j] \in TrimSpace) # space}
  IN IF stops = {} THEN Len(text) + 1
     ELSE CHOOSE j \in stops : \A k \in stops : j <= k

\* /COPY\s+([^\s]+)\s+/ tried at index i: the index after the match, 0 when
\* there is none.
CopyMatchEnd(text, i) ==
  LET b == RunEnd(text, i + 4, TRUE)
      c == RunEnd(text, b, FALSE)
      d == RunEnd(text, c, TRUE)
  IN IF /\ i + 3 <= Len(text)
        /\ SubSeq(text, i, i + 3) = CopyWord
        /\ b > i + 4 /\ c > b /\ d > c
     THEN d ELSE 0

\* dockerfileContent.match(/COPY\s+([^\s]+)\s+/g), from index i on.
RECURSIVE CopyMatches(_, _)
CopyMatches(text, i) ==
  LET starts == {j \in i..Len(text) : CopyMatchEnd(text, j) > 0}
      first == CHOOSE j \in starts : \A k \in starts : j <= k
  IN IF starts = {} THEN <<>>
     ELSE <<SubSeq(text, first, CopyMatchEnd(text, first) - 1)>>
            \o CopyMatches(text, CopyMatchEnd(text, first))

\* s.split(/\s+/)
RECURSIVE SplitSpaces(_)
SplitSpaces(s) ==
  LET e == RunEnd(s, 1, FALSE)
  IN IF e > Len(s) THEN <<s>>
     ELSE <<SubSeq(s, 1, e - 1)>>
            \o SplitSpaces(SubSeq(s, RunEnd(s, e, TRUE), Len(s)))

\* s.replace(p, ""): the first occurrence of p is removed.
ReplaceFirst(s, p) ==
  LET hits == {i \in 1..(Len(s) - Len(p) + 1) : SubSeq(s, i, i + Len(p) - 1) = p}
      at == CHOOSE i \in hits : \A j \in hits : i <= j
  IN IF hits = {} THEN s
     ELSE SubSeq(s, 1, at - 1) \o SubSeq(s, at + Len(p), Len(s))

File(name, text) == [name |-> name, content |-> TextEncode(text)]

\* The example file made for the file name of a COPY source.
SampleFiles(fileName) ==
  IF fileName = DistName \/ Includes(fileName, DistName)
    THEN <<File(DistIndexName, HtmlSample)>>
  ELSE IF Includes(fileName, DotHtml) \/ Includes(fileName, DotHtm)
    THEN <<File(fileName, HtmlSample)>>
  ELSE IF Includes(fileName, DotTxt)
    THEN <<File(fileName, TxtSample)>>
  ELSE IF fileName = PackageJsonName
    THEN <<File(PackageJsonName, PackageJsonSample)>>
  ELSE IF fileName = RequirementsName
    THEN <<File(RequirementsName, RequirementsSample)>>
  ELSE <<>>

\* The body of copyMatches.forEach for one match, given its parts.
PartsFiles(parts) ==
  IF Len(parts) >= 3
       /\ (StartsWith(parts[2], DotSlash) \/ ~Includes(parts[2], <<"/">>))
  THEN SampleFiles(ReplaceFirst(parts[2], DotSlash))
  ELSE <<>>

MatchFiles(match) == PartsFiles(SplitSpaces(Trim(match)))

MatchesFiles(matches) ==
  Flatten([i \in DOMAIN matches |-> MatchFiles(matches[i])])

AnalyzeDockerfileFiles(dockerfileContent) ==
  <<File(DockerfileName, dockerfileContent)>>
    \o MatchesFiles(CopyMatches(dockerfileContent, 1))

Zeros(n) == [i \in 1..n |-> 0]

\* buffer.set(bytes, at)
Overlay(buffer, bytes, at) ==
  [i \in 1..Len(buffer) |->
     IF i > at /\ i <= at + Len(bytes) THEN bytes[i - at] ELSE buffer[i]]

\* n.toString(8)
RECURSIVE OctalDigits(_)
OctalDigits(n) ==
  LET d == <<"0", "1", "2", "3", "4", "5", "6", "7">>[(n % 8) + 1]
  IN IF n < 8 THEN <<d>> ELSE Append(OctalDigits(n \div 8), d)

\* s.padStart(w, '0')
PadStart(s, w) ==
  IF Len(s) >= w THEN s ELSE [i \in 1..(w - Len(s)) |-> "0"] \o s

Octal(n, w) == TextEncode(PadStart(OctalDigits(n), w))

RECURSIVE SumBytes(_, _, _)
SumBytes(h, lo, hi) ==
  IF lo > hi THEN 0
  ELSE IF lo = hi THEN h[lo]
  ELSE SumBytes(h, lo, (lo + hi) \div 2) + SumBytes(h, (lo + hi) \div 2 + 1, hi)

\* The header fields before the checksum is computed: name, mode, uid, gid,
\* size, mtime, eight spaces, type '0'.
HeaderFields(filename, contentSize, t) ==
  Overlay(Overlay(Overlay(Overlay(Overlay(Overlay(Overlay(
    Zeros(BlockSize),
    SubSeq(TextEncode(filename), 1, Min(Len(TextEncode(filename)), NameLimit)), 0),
    TextEncode(Mode644) \o <<32>>, 100),
    TextEncode(Id0) \o <<32>>, 108),
    TextEncode(Id0) \o <<32>>, 116),
    Octal(contentSize, 11) \o <<32>>, 124),
    Octal(t \div 1000, 11) \o <<32>>, 136),
    <<32, 32, 32, 32, 32, 32, 32, 32, 48>>, 148)

\* WithChecksum that sums the header with the checksum bytes taken as zeros.
WithChecksum_Zeros(header) ==
  Overlay(header,
          Octal(SumBytes(Overlay(header, <<0, 0, 0, 0, 0, 0, 0, 0>>, 148), 1, BlockSize), 6)
            \o <<0, 32>>,
          148)

WithChecksum(header) ==
  Overlay(header, Octal(SumBytes(header, 1, BlockSize), 6) \o <<0, 32>>, 148)

TarHeader(filename, contentSize, t) ==
  WithChecksum(HeaderFields(filename, contentSize, t))

\* AddTarEntry that writes only the first byte of the content.
AddTarEntry_Truncating(tarBuffer, offset, filename, content, t) ==
  [buffer |-> Overlay(Overlay(tarBuffer, TarHeader(filename, Len(content), t), offset),
                      SubSeq(content, 1, Min(Len(content), 1)), offset + BlockSize),
   offset |-> offset + BlockSize + Len(content)
                + ((BlockSize - (Len(content) % BlockSize)) % BlockSize)]

\* AddTarEntry that returns the offset without the padding.
AddTarEntry_Unpadded(tarBuffer, offset, filename, content, t) ==
  [buffer |-> Overlay(Overlay(tarBuffer, TarHeader(filename, Len(content), t), offset),
                      content, offset + BlockSize),
   offset |-> offset + BlockSize + Len(content)]

\* addTarEntry(tarBuffer, offset, filename, content) at wall-clock time t:
\* the buffer written and the offset returned.
AddTarEntry(tarBuffer, offset, filename, content, t) ==
  [buffer |-> Overlay(Overlay(tarBuffer, TarHeader(filename, Len(content), t), offset),
                      content, offset + BlockSize),
   offset |-> offset + BlockSize + Len(content)
                + ((BlockSize - (Len(content) % BlockSize)) % BlockSize)]

RECURSIVE AddEntries(_, _, _)
AddEntries(acc, files, t) ==
  IF files = <<>> THEN acc
  ELSE AddEntries(AddTarEntry(acc.buffer, acc.offset, Head(files).name,
                              Head(files).content, t),
                  Tail(files), t)

\* Math.ceil(n / 512) * 512
Padded(n) == ((n + BlockSize - 1) \div BlockSize) * BlockSize

RECURSIVE TotalSize(_)
TotalSize(files) ==
  IF files = <<>> THEN TrailerSize
  ELSE BlockSize + Padded(Len(Head(files).content)) + TotalSize(Tail(files))

TarOf(files, t) ==
  AddEntries([buffer |-> Zeros(TotalSize(files)), offset |-> 0], files, t)

\* createMinimalTar(dockerfileContent) at wall-clock time t: the buffer
\* returned and the offset after the last entry.
CreateMinimalTar(dockerfileContent, t) ==
  TarOf(AnalyzeDockerfileFiles(dockerfileContent), t)

\* Recipes: concatenations of at most MaxRecipePieces of these texts.
R_from == <<"F", "R", "O", "M", " ", "x", "\n">>
R_copyDist ==
  <<"C", "O", "P", "Y", " ", ".", "/", "d", "i", "s", "t", " ", "/", "d",
    "\n">>
R_copyTxt ==
  <<"C", "O", "P", "Y", " ", "a", ".", "t", "x", "t", " ", "/", "d">>
R_accent == <<"U+00E9">>
R_block == [i \in 1..505 |-> "x"]

RecipePieces ==
  {R_from, R_copyDist, R_copyTxt, R_accent, R_block, CopyWord, <<" ">>}

RECURSIVE RecipeSeqs(_)
RecipeSeqs(n) ==
  IF n = 0 THEN {<<>>}
  ELSE RecipeSeqs(n - 1)
         \cup {Append(s, p) : s \in RecipeSeqs(n - 1), p \in RecipePieces}

Recipes == {Flatten(s) : s \in RecipeSeqs(MaxRecipePieces)}

TarMade(recipe, made) ==
  [made |-> TRUE, recipe |-> recipe, buffer |-> made.buffer, offset |-> made.offset]

\* createMinimalTar(options.dockerfile), as buildImage calls it.
MakeTar ==
  /\ ~tar.made
  /\ \E recipe \in Recipes, t \in {0, ClockStep * 1000} :
       tar' = TarMade(recipe, CreateMinimalTar(recipe, t))
  /\ UNCHANGED <<mainVars, agg, ops, blog, tarEntry, split, hist, spd>>

NextTar == MakeTar

\* One call of addTarEntry on a zero-filled buffer that has room for it.
N_long == [i \in 1..101 |-> "n"]
N_accent == [i \in 1..100 |-> IF i < 100 THEN "n" ELSE "U+00E9"]

EntryNames == {DockerfileName, DistIndexName, N_long, N_accent, <<>>}
EntrySizes == {0, 1, 8, 511, 512, 513}
EntryOffsets == {0, 512}
EntryTimes == {0, ClockStep * 1000}

WriteEntry ==
  /\ ~tarEntry.made
  /\ \E filename \in EntryNames, n \in EntrySizes, at \in EntryOffsets,
        t \in EntryTimes :
       LET content == [i \in 1..n |-> 65]
           made == AddTarEntry(Zeros(at + BlockSize + Padded(n) + TrailerSize),
                               at, filename, content, t)
       IN tarEntry' = [made |-> TRUE, filename |-> filename, content |-> content,
                       t |-> t, at |-> at, buffer |-> made.buffer,
                       offset |-> made.offset]
  /\ UNCHANGED <<mainVars, agg, tar, ops, blog, split, hist, spd>>

NextEntry == WriteEntry

SpecEntry == Init /\ [][NextEntry]_vars

SpecTar == Init /\ [][NextTar]_vars

\* The value, now, of the object `{ ...status }` that call i handed to
\* onProgress: the spread copied error and completed, and the references to
\* logs (build), layers and overall (pull), which the operation goes on
\* changing in place.
SnapshotNow(i) ==
  IF kind = "build" THEN [calls[i].arg EXCEPT !.logs = status.logs]
  ELSE [calls[i].arg EXCEPT !.layers = status.layers, !.overall = status.overall]

\* ------------------------------------------- build aggregator on its own
MaxBuildEvents == 2

E_error == [k |-> K_error, v |-> JStr(<<"e">>)]
E_stream == [k |-> K_stream, v |-> JStr(<<"a">>)]
E_status == [k |-> K_status, v |-> JStr(<<"b">>)]
E_aux == [k |-> K_aux, v |-> JObj(<<[k |-> K_ID, v |-> JStr(<<"i">>)]>>)]
E_other == [k |-> <<"x">>, v |-> JStr(<<"y">>)]

Member(present, m) == IF present THEN <<m>> ELSE <<>>

\* The events _updateBuildProgress receives: objects with any of the fields
\* error, stream, status, aux and a field the code does not know.
BuildEvents ==
  {JObj(Member(e, E_error) \o Member(st, E_stream) \o Member(s, E_status)
          \o Member(a, E_aux) \o Member(o, E_other)) :
     e \in BOOLEAN, st \in BOOLEAN, s \in BOOLEAN, a \in BOOLEAN, o \in BOOLEAN}

FeedBuild ==
  /\ blog.fed < MaxBuildEvents
  /\ \E event \in BuildEvents :
       blog' = [status |-> UpdateBuildProgress(event, blog.status).status,
                fed |-> blog.fed + 1,
                event |-> event,
                before |-> blog.status]
  /\ UNCHANGED <<mainVars, agg, tar, ops, tarEntry, split, hist, spd>>

NextBuildEvents == FeedBuild

SpecBuildEvents == Init /\ [][NextBuildEvents]_vars

\* --------------------------------------------- splitJsonObjects on its own
MaxLinePieces == 3

L_a == <<"{", "\"", "a", "\"", ":", "1", "}">>
L_b == <<"{", "\"", "b", "\"", ":", "2", "}">>
L_brace ==
  <<"{", "\"", "s", "t", "a", "t", "u", "s", "\"", ":", "\"", "a", "}", "b",
    "\"", "}">>
L_quote ==
  <<"{", "\"", "s", "\"", ":", "\"", "a", "\\", "\"", "}", "b", "\"", "}">>

\* Lines: concatenations of at most MaxLinePieces of these texts.
LinePieces ==
  {L_a, L_b, L_brace, L_quote, <<" ">>, <<"x">>, <<"{">>, <<"}">>, <<"\"">>,
   <<"\\">>}

RECURSIVE LineSeqs(_)
LineSeqs(n) ==
  IF n = 0 THEN {<<>>}
  ELSE LineSeqs(n - 1)
         \cup {Append(ss, p) : ss \in LineSeqs(n - 1), p \in LinePieces}

Lines == {Flatten(ss) : ss \in LineSeqs(MaxLinePieces)}

SplitLine ==
  /\ ~split.made
  /\ \E line \in Lines :
       split' = [made |-> TRUE, line |-> line, objects |-> SplitJsonObjects(line)]
  /\ UNCHANGED <<mainVars, agg, tar, ops, blog, tarEntry, hist, spd>>

NextSplit == SplitLine

SpecSplit == Init /\ [][NextSplit]_vars

\* ------------------------------------------------ speed of a pull in time
MaxSpeedEvents == 3
MaxSpeedTime == 1200
SpeedStep == 600

SpeedEvents == {LayerEvent(<<"a">>, <<>>, pd) : pd \in ByteCounts}

\* A line with this event is handled at time spd.now by the loop body of a
\* pull started at time 0.
SpeedEvent ==
  /\ Len(spd.reports) < MaxSpeedEvents
  /\ \E event \in SpeedEvents :
       LET c == PullParsed(spd.ctx, [ok |-> TRUE, v |-> event], 0, spd.now)
       IN spd' = [ctx |-> c,
                  now |-> spd.now,
                  reports |-> Append(spd.reports,
                                     [t |-> spd.now,
                                      speed |-> c.status.overall.speed,
                                      downloaded |-> c.status.overall.downloaded,
                                      lastUpdate |-> c.lastUpdate])]
  /\ UNCHANGED <<mainVars, agg, tar, ops, blog, tarEntry, split, hist>>

SpeedTick ==
  /\ spd.now + SpeedStep <= MaxSpeedTime
  /\ spd' = [spd EXCEPT !.now = @ + SpeedStep]
  /\ UNCHANGED <<mainVars, agg, tar, ops, blog, tarEntry, split, hist>>

NextSpeed == SpeedEvent \/ SpeedTick

SpecSpeed == Init /\ [][NextSpeed]_vars

\* ------------------------------------------------- the Dockerfile history
\* The history store under addHistory, deleteHistory, clearHistory and the
\* builds of buildImage, which calls addHistory(options.tag,
\* options.dockerfile) as the last statement of its try block.
MaxBuilds == 2
MaxHistClock == 1

\* The entry addHistory makes at time t.
NewEntry(name, content, t) ==
  [id |-> t, name |-> name, content |-> content, timestamp |-> t]

\* The store after an operation; for a build, what the store held before.
HistStep(entries, op, result, before) ==
  [hist EXCEPT !.entries = entries,
               !.last = [op |-> op, before |-> before, result |-> result,
                         at |-> hist.clock]]

HistAdd ==
  /\ hist' = HistStep(AddHistory(hist.entries, NewEntry("name", "content", hist.clock)),
                      "addHistory", "added", <<>>)
  /\ UNCHANGED <<mainVars, agg, tar, ops, blog, tarEntry, split, spd>>

\* deleteHistory(id): saves the filtered list when it is shorter.
HistDelete ==
  /\ \E id \in 0..MaxHistClock :
       LET Other(h) == h.id # id
           filtered == SelectSeq(hist.entries, Other)
       IN hist' = IF Len(filtered) # Len(hist.entries)
                  THEN HistStep(SubSeq(filtered, 1, Min(Len(filtered), HistoryLimit)),
                                "deleteHistory", "true", <<>>)
                  ELSE HistStep(hist.entries, "deleteHistory", "false", <<>>)
  /\ UNCHANGED <<mainVars, agg, tar, ops, blog, tarEntry, split, spd>>

HistClear ==
  /\ hist' = HistStep(<<>>, "clearHistory", "cleared", <<>>)
  /\ UNCHANGED <<mainVars, agg, tar, ops, blog, tarEntry, split, spd>>

\* A build ends: it resolved (onComplete returned and the history write
\* succeeded), or it ended in the catch block (an error, a cancellation, an
\* onComplete that threw, a history write that failed).
HistBuild ==
  /\ hist.builds < MaxBuilds
  /\ \E result \in {"resolved", "rejected"} :
       hist' = [(IF result = "resolved"
                 THEN HistStep(AddHistory(hist.entries,
                                          NewEntry("tag", "dockerfile", hist.clock)),
                               "buildImage", result, hist.entries)
                 ELSE HistStep(hist.entries, "buildImage", result, hist.entries))
                EXCEPT !.builds = @ + 1]
  /\ UNCHANGED <<mainVars, agg, tar, ops, blog, tarEntry, split, spd>>

HistTick ==
  /\ hist.clock < MaxHistClock
  /\ hist' = [hist EXCEPT !.clock = @ + 1]
  /\ UNCHANGED <<mainVars, agg, tar, ops, blog, tarEntry, split, spd>>

NextHistory == HistAdd \/ HistDelete \/ HistClear \/ HistBuild \/ HistTick

SpecHistory == Init /\ [][NextHistory]_vars

\* ------------------------------------------------- concurrent operations
\* Two operations of one service instance each: they share the registries
\* (_activePullRequests, _activeBuildRequests) and the clock.  Only the
\* steps that touch a registry are kept: start, the check before each read,
\* completion, the catch block, and the cancel methods.

MaxClock == 1
MaxCancels == 2

OpIds == {1, 2}
ImageNames == {"image", "other"}

\* `${imageName}_${Date.now()}` and `build_${Date.now()}`
RequestId(k, imageName, t) ==
  IF k = "pull" THEN [name |-> imageName, t |-> t] ELSE BuildToken(t)

RequestIds(k) ==
  {RequestId(k, n, t) : n \in ImageNames, t \in 0..MaxClock}

\* this._active...Requests.get(id)?.cancelToken !== cancelToken
OpCancelDetected(s, o) ==
  LET reg == s.registry[s.op[o].kind]
      tok == s.op[o].token
  IN ~(tok \in DOMAIN reg /\ reg[tok] = o)

\* The catch block: the pull deletes its registry entry, the build does not.
OpCatch(s, o, msg) ==
  LET k == s.op[o].kind
  IN [s EXCEPT !.op[o].pc = "done",
               !.op[o].outcome = "rejected",
               !.op[o].error = msg,
               !.registry[k] = IF k = "pull"
                               THEN RegistryDelete(@, s.op[o].token)
                               ELSE @]

OpCancelledMsg(k) == IF k = "pull" THEN PullCancelledMsg ELSE BuildCancelledMsg

\* The head of the read loop.
OpCheck(s, o) ==
  IF OpCancelDetected(s, o) THEN OpCatch(s, o, OpCancelledMsg(s.op[o].kind))
  ELSE [s EXCEPT !.op[o].pc = "read"]

\* The end of the try block.
OpFinish(s, o) ==
  [s EXCEPT !.op[o].pc = "done",
            !.op[o].outcome = "resolved",
            !.registry[s.op[o].kind] = RegistryDelete(@, s.op[o].token)]

OpStart(o) ==
  /\ ops.op[o].pc = "idle"
  /\ \E k \in {"pull", "build"}, imageName \in ImageNames :
       LET id == RequestId(k, imageName, ops.clock)
       IN ops' = [ops EXCEPT !.op[o].pc = "fetch",
                             !.op[o].kind = k,
                             !.op[o].token = id,
                             !.registry[k] = RegistryPut(@, id, o)]
  /\ UNCHANGED <<mainVars, agg, tar, blog, tarEntry, split, hist, spd>>

OpFetchSettle(o) ==
  /\ ops.op[o].pc = "fetch"
  /\ ops' = OpCheck(ops, o)
  /\ UNCHANGED <<mainVars, agg, tar, blog, tarEntry, split, hist, spd>>

OpRead(o) ==
  /\ ops.op[o].pc = "read"
  /\ \E result \in {"chunk", "done", "failure"} :
       ops' = CASE result = "chunk" -> OpCheck(ops, o)
                [] result = "done" -> OpFinish(ops, o)
                [] result = "failure" -> OpCatch(ops, o, ReadFailedText)
  /\ UNCHANGED <<mainVars, agg, tar, blog, tarEntry, split, hist, spd>>

\* cancelPullImage / cancelBuild: the value returned and the registry left.
CancelReturn_Always(reg, id) == TRUE

CancelReturn(reg, id) == id \in DOMAIN reg

CancelRegistry(reg, id) ==
  IF id \in DOMAIN reg THEN RegistryDelete(reg, id) ELSE reg

OpCancel ==
  /\ Len(ops.cancels) < MaxCancels
  /\ \E k \in {"pull", "build"} : \E id \in RequestIds(k) :
       ops' = [ops EXCEPT
                 !.registry[k] = CancelRegistry(@, id),
                 !.cancels = Append(@, [kind |-> k, id |-> id,
                                        returned |-> CancelReturn(ops.registry[k], id),
                                        before |-> ops.registry[k],
                                        after |-> CancelRegistry(ops.registry[k], id)])]
  /\ UNCHANGED <<mainVars, agg, tar, blog, tarEntry, split, hist, spd>>

OpTick ==
  /\ ops.clock < MaxClock
  /\ ops' = [ops EXCEPT !.clock = @ + 1]
  /\ UNCHANGED <<mainVars, agg, tar, blog, tarEntry, split, hist, spd>>

NextOps ==
  \/ \E o \in OpIds : OpStart(o)
  \/ \E o \in OpIds : OpFetchSettle(o)
  \/ \E o \in OpIds : OpRead(o)
  \/ OpCancel
  \/ OpTick

SpecOps == Init /\ [][NextOps]_vars

\* ============================================================ properties
\* Reference computations and observations the properties are stated with.

InitStatus == IF kind = "pull" THEN InitPullStatus ELSE InitBuildStatus

\* The operation's line-processing state before the first read.
InitCtx ==
  [status |-> InitStatus, calls |-> <<>>, events |-> <<>>,
   lastUpdate |-> startTime, lastDownloaded |-> 0]

\* The status without the pull's byte counts and speed, which depend on the
\* wall clock.
Observable(s) ==
  IF kind = "pull"
  THEN [layers |-> s.layers, percent |-> s.overall.percent,
        error |-> s.error, completed |-> s.completed]
  ELSE [logs |-> s.logs, error |-> s.error, completed |-> s.completed]

\* The run that receives the whole text in a single read.
WholeRun(text) ==
  Finish(ResidualCtx(ChunkCtx(InitCtx, text, now), LastLine(text), now))

\* The run over the same text with its last line ended by a line break, so
\* that no residual text is left.
LinesRun(text) == Finish(ChunkCtx(InitCtx, text \o <<"\n">>, now))

\* The operation returned normally.
Ended == pc = "done" /\ outcome = "resolved"

Count(cb) == Cardinality({i \in DOMAIN calls : calls[i].cb = cb})

\* The status the i-th callback invocation found before its own update.
Prev(i) == IF i = 1 THEN InitStatus ELSE calls[i - 1].arg

IsEventCall(c) == c.after \in {"event", "threw"}

ErrorEvent(e) == Truthy(Get(e, K_error)) \/ Truthy(Get(e, K_errorDetail))

\* The values of the substrings a line splits into that are valid JSON.
RECURSIVE ParsedObjects(_)
ParsedObjects(objs) ==
  IF objs = <<>> THEN <<>>
  ELSE LET r == JsonParse(Head(objs))
       IN (IF r.ok THEN <<r.v>> ELSE <<>>) \o ParsedObjects(Tail(objs))

RECURSIVE ObjectsOfLines(_)
ObjectsOfLines(lines) ==
  IF lines = <<>> THEN <<>>
  ELSE ParsedObjects(SplitJsonObjects(Trim(Head(lines))))
         \o ObjectsOfLines(Tail(lines))

WellFormed(piece) == JsonParse(TextDecode(piece)).ok

WellFormedPieces == {i \in DOMAIN pieces : WellFormed(pieces[i])}

MalformedPieces ==
  {i \in DOMAIN pieces : pieces[i] # P_newline /\ ~WellFormed(pieces[i])}

\* C1: However the byte stream is cut into chunks (also in the middle of a
\* line or of a multi-byte character), an operation that reads it to the end
\* decodes the same events in the same order and ends with the same status
\* (layers, percent, logs, error) as the run that gets it in one chunk.
C1_ChunkBoundaryIndependence ==
  Ended =>
    LET ref == WholeRun(TextDecode(stream))
    IN /\ events = ref.events
       /\ Observable(status) = Observable(ref.status)

\* C2: In the pull and in the build decoder, a complete line that holds
\* several JSON objects back to back is split into its balanced-brace
\* objects, and each of them is parsed and applied as an event of its own,
\* left to right.
C2_ConcatenatedObjectsResplit ==
  (Ended /\ receivedText = <<>> /\ MalformedPieces = {}) =>
    events = ObjectsOfLines(CompleteLines(received))

\* C3: A malformed text in the stream, on the line of a well-formed object
\* (before or after it) or on a neighbouring line, never keeps a well-formed
\* object from being parsed and applied: every well-formed object of the
\* input gives its event.  Stated for the build decoder, the one that splits
\* a line into its objects.
C3_MalformedNeverMasksValid ==
  (Ended /\ kind = "build" /\ MalformedPieces # {}) =>
    Len(events) = Cardinality(WellFormedPieces)

\* The messages of the failures that are not decode failures.
OtherFailures ==
  {FetchFailedText, HttpErrorPull \o Status500, HttpErrorBuild \o Status500,
   BodyNullPull, BodyNullBuild, ReadFailedText, <<>>, PullCancelledMsg,
   BuildCancelledMsg, CallbackFailedText, QuotaExceededText}

\* C4: A text that is not valid JSON is never fatal: the status' error and
\* completed stay as they were, the build log gains exactly one line that
\* holds the raw text with its \uXXXX escapes resolved, the error field is
\* only ever set by an error event or by the catch block, and onError is
\* only ever called for a failure of another kind, so that the operation
\* ends through onComplete when nothing else fails.
C4_DecodeFailureNotFatal ==
  /\ \A i \in DOMAIN calls :
       calls[i].after = "failure" =>
         /\ ~calls[i].arg.completed
         /\ calls[i].arg.error = Prev(i).error
         /\ calls[i].arg.logs =
              Append(Prev(i).logs,
                     RawDataTag \o DecodeUnicodeEscapes(calls[i].raw))
  /\ status.error # Undefined =>
       \/ \E k \in DOMAIN events : ErrorEvent(events[k])
       \/ Count("onError") > 0
  /\ \A i \in DOMAIN calls :
       calls[i].cb = "onError" => calls[i].arg \in OtherFailures
  /\ pc = "done" => (outcome = "rejected" <=> Count("onError") > 0)
  /\ (pc = "done" /\ Count("onError") = 0) => Count("onComplete") = 1

\* A build met a malformed text with an escape, logged it resolved, went on
\* to a later event and returned normally.
C4_Witness ==
  /\ Ended
  /\ \E i \in DOMAIN calls :
       /\ calls[i].after = "failure"
       /\ calls[i].raw = P_escape
       /\ calls[i].arg.logs[Len(calls[i].arg.logs)] = RawDataTag \o <<"A">>
       /\ \E j \in DOMAIN calls : j > i /\ calls[j].after = "event"

\* C5: When the stream ends without a final line break, the residual text
\* is processed exactly once, as a complete line would be, before completed
\* is set and before onComplete is called: the events and the final status
\* are those of the same text ended by a line break.
C5_ResidualProcessedOnce ==
  Ended =>
    LET ref == LinesRun(received)
    IN /\ events = ref.events
       /\ Observable(status) = Observable(ref.status)
       /\ Len(calls) = Len(ref.calls) + 1
       /\ \A i \in DOMAIN calls :
            calls[i].after # "end" => ~calls[i].arg.completed
       /\ calls[Len(calls)] = OnComplete
       /\ calls[Len(calls) - 1] = OnProgress(status, "end", <<>>)

\* The stream ended inside a line that holds an event, after other events.
C5_Witness ==
  /\ Ended
  /\ JsonParse(Trim(receivedText)).ok
  /\ Len(events) >= 2
  /\ events[Len(events)] = JsonParse(Trim(receivedText)).v

\* The status an event gives when applied to status s.
Applied(e, s) ==
  IF kind = "pull" THEN UpdatePullProgress(e, s, startTime, now)
  ELSE UpdateBuildProgress(e, s).status

\* C6: onProgress is called once after every parsed event, in the order of
\* the events, with a status that holds that event's update; and the call
\* before onComplete is an onProgress with completed = true.
C6_ProgressPerEvent ==
  /\ Cardinality({i \in DOMAIN calls : IsEventCall(calls[i])}) = Len(events)
  /\ \A i \in DOMAIN calls :
       calls[i].after = "event" =>
         LET k == Cardinality({j \in 1..i : IsEventCall(calls[j])})
         IN Observable(calls[i].arg) = Observable(Applied(events[k], Prev(i)))
  /\ \A j \in DOMAIN calls :
       calls[j].cb = "onComplete" =>
         /\ j > 1
         /\ calls[j - 1].cb = "onProgress"
         /\ calls[j - 1].after = "end"
         /\ calls[j - 1].arg.completed

\* Two events arrived on one line and the operation returned normally.
C6_Witness ==
  /\ Ended
  /\ Len(events) = 2
  /\ Len(CompleteLines(received)) = 1
  /\ receivedText = <<>>

\* C7: An error event of the protocol ends the operation as every other
\* error does: completed = true, error set, onError called exactly once and
\* onComplete not called.
C7_ErrorEventTerminates ==
  (pc = "done" /\ \E k \in DOMAIN events : ErrorEvent(events[k])) =>
    /\ status.completed
    /\ status.error # Undefined
    /\ Count("onError") = 1
    /\ Count("onComplete") = 0

\* The messages of the transport failures.
TransportFailures ==
  {FetchFailedText, HttpErrorPull \o Status500, HttpErrorBuild \o Status500,
   BodyNullPull, BodyNullBuild, ReadFailedText, <<>>}

\* The message the exchange resp fails with before any byte is read.
ExchangeFailure ==
  IF resp = "reject" THEN FetchFailedText
  ELSE IF resp = "status"
    THEN (IF kind = "pull" THEN HttpErrorPull ELSE HttpErrorBuild) \o Status500
  ELSE IF kind = "pull" THEN BodyNullPull ELSE BodyNullBuild

\* C8: A transport failure (fetch rejects, non-2xx status, no body, a read
\* rejects) ends the loop: completed = true, error is the exception's
\* message (the fallback text when it is empty), onProgress reports that
\* final status, onError is called exactly once and last, onComplete is not
\* called and no event is applied afterwards.
C8_TransportFailureAborts ==
  /\ \A i \in DOMAIN calls :
       (calls[i].cb = "onError" /\ calls[i].arg \in TransportFailures) =>
         /\ pc = "done" /\ outcome = "rejected"
         /\ i = Len(calls) /\ i > 1
         /\ calls[i - 1] = OnProgress(status, "end", <<>>)
         /\ status.completed
         /\ status.error =
              (IF calls[i].arg # <<>> THEN calls[i].arg ELSE FailedMsg)
         /\ Count("onError") = 1
         /\ Count("onComplete") = 0
         /\ Cardinality({j \in DOMAIN calls : IsEventCall(calls[j])})
              = Len(events)
  /\ (pc = "done" /\ resp # "ok") =>
       /\ events = <<>>
       /\ Len(calls) = 2
       /\ calls[2] = OnError(ExchangeFailure)

\* A read rejected after an event had been applied.
C8_Witness ==
  /\ pc = "done"
  /\ Len(events) >= 1
  /\ calls[Len(calls)] = OnError(ReadFailedText)
  /\ status.error = ReadFailedText

\* C9: Exactly one of onComplete and onError is called, exactly once,
\* whatever happens after the stream ended (a callback that fails, a history
\* write that fails after onComplete).
C9_ExactlyOneTerminalCallback ==
  /\ Count("onComplete") + Count("onError") <= 1
  /\ pc = "done" => Count("onComplete") + Count("onError") = 1

\* C10: completed is false from the start, true once the operation is over,
\* never goes from true back to false, and the statuses handed to onProgress
\* show it false up to some call and true from then on.
C10_CompletedMonotone ==
  /\ [](/\ pc # "done" => ~status.completed
        /\ pc = "done" => status.completed
        /\ \A i, j \in DOMAIN calls :
             (i < j /\ calls[i].cb = "onProgress" /\ calls[j].cb = "onProgress"
                /\ calls[i].arg.completed) => calls[j].arg.completed)
  /\ [][status.completed => status'.completed]_vars

\* The catch block ran after completed had been set and reported.
C10_Witness ==
  /\ pc = "done"
  /\ Cardinality({i \in DOMAIN calls :
                    calls[i].cb = "onProgress" /\ calls[i].arg.completed}) = 2

\* C11: A status record with completed = true is immutable: every status
\* handed to onProgress with completed = true equals the record as it is in
\* every later state, so the first such snapshot equals the final record.
C11_CompletedImmutable ==
  \A i \in DOMAIN calls :
    (calls[i].cb = "onProgress" /\ calls[i].arg.completed) =>
      calls[i].arg = status

\* cancelPullImage / cancelBuild returned true while the operation waits
\* for the fetch or for a read.
CancelledInFlight == pc \in {"fetch", "read"} /\ token \notin DOMAIN registry

\* C12: Once the cancel call returned true for an operation in flight,
\* whatever the pending fetch or read resolves with (a response, a chunk,
\* the end of the stream), the operation applies nothing more and ends
\* through the error path: error is the cancellation message, completed is
\* true, onError is called once and onComplete is not called.
C12_CancelStopsOperation ==
  [][(CancelledInFlight /\ resp = "ok" /\ (FetchSettle \/ ReadChunk \/ ReadDone)) =>
       /\ events' = events
       /\ pc' = "done"
       /\ outcome' = "rejected"
       /\ status'.completed
       /\ status'.error = CancelledMsg
       /\ Cardinality({i \in DOMAIN calls' : calls'[i].cb = "onError"}) = 1
       /\ Cardinality({i \in DOMAIN calls' : calls'[i].cb = "onComplete"}) = 0]_vars

\* C14: After a pull or a build has ended, on any path, its token is no
\* longer in the active registry (a cancel issued then finds nothing).
C14_TokenRemovedAfterTermination ==
  pc = "done" => token \notin DOMAIN registry

IsPrefix(s, t) == Len(s) <= Len(t) /\ SubSeq(t, 1, Len(s)) = s

\* The log as the last onProgress before the i-th callback invocation saw it.
PrevLogs(i) ==
  LET earlier == {j \in 1..(i - 1) : calls[j].cb = "onProgress"}
  IN IF earlier = {} THEN <<>>
     ELSE calls[CHOOSE j \in earlier : \A k \in earlier : k <= j].arg.logs

\* The log lines an event gives.
EventLines(e) == UpdateBuildProgress(e, InitBuildStatus).status.logs

\* C18: BuildStatus.logs is append-only and in decode order: every step
\* leaves the log as it was or appends to it, and every reported status'
\* log is the log reported before followed by the lines of the event (or of
\* the rejected text) the report is about.
C18_LogsAppendOnly ==
  /\ [](kind = "build" =>
          \A i \in DOMAIN calls :
            calls[i].cb = "onProgress" =>
              /\ IsPrefix(PrevLogs(i), calls[i].arg.logs)
              /\ IsPrefix(calls[i].arg.logs, status.logs)
              /\ calls[i].after = "event" =>
                   calls[i].arg.logs = PrevLogs(i) \o
                     EventLines(events[Cardinality({j \in 1..i : IsEventCall(calls[j])})])
              /\ calls[i].after = "failure" =>
                   calls[i].arg.logs = Append(PrevLogs(i), RawLine(calls[i].raw))
              /\ calls[i].after = "end" => calls[i].arg.logs = PrevLogs(i))
  /\ [][(kind = "build" /\ kind' = "build") =>
          IsPrefix(status.logs, status'.logs)]_vars

\* A build logged two events and a rejected text, in that order.
C18_Witness ==
  /\ kind = "build"
  /\ Ended
  /\ Len(status.logs) = 3
  /\ Len(calls) = 5
  /\ calls[1].after = "event"
  /\ calls[2].after = "event"
  /\ calls[3].after = "failure"
  /\ status.logs[3] = RawLine(calls[3].raw)

\* C16: After any sequence of pull events whose byte counts are non-negative
\* integers, status.overall.percent is an integer from 0 to 100.
C16_PercentInRange == agg.status.overall.percent \in 0..100

\* The layers hold more downloaded bytes than total bytes and the percent is
\* capped.
C16_Witness ==
  /\ agg.status.overall.total > 0
  /\ agg.status.overall.downloaded > agg.status.overall.total
  /\ agg.status.overall.percent = 100

\* C17: As long as no layer's downloaded bytes decrease and no layer's total
\* shrinks, status.overall.percent never decreases from one event to the
\* next, also when the event brings a new layer or a terminal status.
C17_PercentNonDecreasing ==
  agg.monotone => agg.last <= agg.status.overall.percent

\* Reading an archive back, as a tar reader does: a header block, the
\* content of the length the size field gives, padding to the next block,
\* up to the first block of zeros.
EntryName(block) ==
  LET ends == {i \in 1..NameLimit : block[i] = 0}
  IN SubSeq(block, 1, IF ends = {} THEN NameLimit
                      ELSE (CHOOSE i \in ends : \A j \in ends : i <= j) - 1)

RECURSIVE OctalValue(_)
OctalValue(digits) ==
  IF digits = <<>> THEN 0
  ELSE 8 * OctalValue(SubSeq(digits, 1, Len(digits) - 1))
         + (digits[Len(digits)] - 48)

EntrySize(block) == OctalValue(SubSeq(block, 125, 135))

RECURSIVE ReadEntries(_, _)
ReadEntries(buffer, offset) ==
  IF offset + BlockSize > Len(buffer) THEN <<>>
  ELSE IF \A i \in 1..BlockSize : buffer[offset + i] = 0 THEN <<>>
  ELSE LET block == SubSeq(buffer, offset + 1, offset + BlockSize)
           size == EntrySize(block)
       IN <<[name |-> EntryName(block),
             content |-> SubSeq(buffer, offset + BlockSize + 1,
                                offset + BlockSize + size)]>>
            \o ReadEntries(buffer, offset + BlockSize + Padded(size))

\* How often the word COPY occurs in the recipe.
CopyCount(recipe) ==
  Cardinality({i \in 1..(Len(recipe) - 3) : SubSeq(recipe, i, i + 3) = CopyWord})

\* C19: The archive of a recipe without a COPY directive has exactly one
\* entry, the recipe; the archive of a recipe whose COPY directive is
\* `COPY ./dist <destination>` has exactly two, the recipe followed by
\* dist/index.html.
C19_EntryCount ==
  tar.made =>
    /\ CopyCount(tar.recipe) = 0 => Len(ReadEntries(tar.buffer, 0)) = 1
    /\ (CopyCount(tar.recipe) = 1 /\ Includes(tar.recipe, R_copyDist)) =>
         /\ Len(ReadEntries(tar.buffer, 0)) = 2
         /\ ReadEntries(tar.buffer, 0)[2].name = TextEncode(DistIndexName)

\* C20: Entry 0 of the archive is named Dockerfile and holds exactly the
\* UTF-8 bytes of the recipe; the entries after it are the example files of
\* the COPY directives, in the order of the directives.
C20_RecipeFirst ==
  tar.made =>
    LET entries == ReadEntries(tar.buffer, 0)
    IN /\ Len(entries) >= 1
       /\ entries[1].name = TextEncode(DockerfileName)
       /\ entries[1].content = TextEncode(tar.recipe)
       /\ SubSeq(entries, 2, Len(entries))
            = MatchesFiles(CopyMatches(tar.recipe, 1))

\* A recipe that begins with a two-byte character: the entry is one byte
\* longer than the recipe has characters.
C20_Witness ==
  /\ tar.made
  /\ Len(tar.recipe) > 1
  /\ tar.recipe[1] = "U+00E9"
  /\ Includes(tar.recipe, R_copyDist)
  /\ SubSeq(tar.buffer, BlockSize + 1, BlockSize + 2) = <<195, 169>>
  /\ Len(ReadEntries(tar.buffer, 0)[1].content) = Len(tar.recipe) + 1

\* C13: A cancel call returns true exactly when its token is in the registry
\* at the time of the call and then removes the entry; for an absent token
\* it returns false and leaves the registry as it was; a second cancel of
\* the same token right after a successful one returns false and changes
\* nothing.
C13_CancelReturnsPresence ==
  /\ \A i \in DOMAIN ops.cancels :
       LET c == ops.cancels[i]
       IN /\ c.returned = (c.id \in DOMAIN c.before)
          /\ c.returned => c.after = RegistryDelete(c.before, c.id)
          /\ ~c.returned => c.after = c.before
  /\ \A i \in DOMAIN ops.cancels : \A j \in DOMAIN ops.cancels :
       LET c == ops.cancels[i]
           d == ops.cancels[j]
       IN (j = i + 1 /\ c.kind = d.kind /\ c.id = d.id /\ d.before = c.after
             /\ c.returned)
            => (~d.returned /\ d.after = d.before)

\* A token cancelled twice in a row while its operation waits, and a cancel
\* of a token that was never handed out.
C13_Witness ==
  /\ Len(ops.cancels) = 2
  /\ ops.cancels[1].id = ops.cancels[2].id
  /\ ops.cancels[1].kind = ops.cancels[2].kind
  /\ ops.cancels[1].returned
  /\ ~ops.cancels[2].returned
  /\ ops.cancels[2].before = ops.cancels[1].after
  /\ \E o \in OpIds : ops.op[o].token = ops.cancels[1].id /\ ops.op[o].pc = "fetch"

C13_WitnessAbsent ==
  /\ Len(ops.cancels) = 1
  /\ ~ops.cancels[1].returned
  /\ ops.cancels[1].before # <<>>
  /\ ops.cancels[1].after = ops.cancels[1].before

OpActive(o) == ops.op[o].pc \in {"fetch", "read"}

\* C15: Operations in flight are isolated: two active operations of a
\* service never use the same token, and an active operation that nobody
\* cancelled has its own entry in the registry, whether or not they were
\* started within the same millisecond or for the same image.
C15_OperationsIsolated ==
  /\ \A o1 \in OpIds : \A o2 \in OpIds :
       (o1 # o2 /\ OpActive(o1) /\ OpActive(o2) /\ ops.op[o1].kind = ops.op[o2].kind)
         => ops.op[o1].token # ops.op[o2].token
  /\ \A o \in OpIds :
       (OpActive(o) /\ ops.cancels = <<>>) => ~OpCancelDetected(ops, o)
  /\ \A o \in OpIds :
       (ops.op[o].pc = "done" /\ ops.cancels = <<>>)
         => ops.op[o].error \notin {PullCancelledMsg, BuildCancelledMsg}

\* The least multiple of 512 that is at least n.
RoundUp512(n) == CHOOSE m \in {512 * k : k \in 0..(n \div 512 + 1)} : m >= n /\ m - n < 512

RECURSIVE EntriesSize(_)
EntriesSize(entries) ==
  IF entries = <<>> THEN 0
  ELSE 512 + RoundUp512(Len(Head(entries).content)) + EntriesSize(Tail(entries))

\* C21: The archive is as long as its entries (512 bytes of header plus the
\* content rounded up to a multiple of 512, each) plus 1024 bytes of
\* trailer, so a multiple of 512; the entries end at a multiple of 512, at
\* length - 1024, where the writer's offset is, and all bytes from there on
\* are zero.
C21_ArchiveLength ==
  tar.made =>
    /\ Len(tar.buffer) = EntriesSize(ReadEntries(tar.buffer, 0)) + 1024
    /\ Len(tar.buffer) % 512 = 0
    /\ tar.offset % 512 = 0
    /\ tar.offset = EntriesSize(ReadEntries(tar.buffer, 0))
    /\ tar.offset = Len(tar.buffer) - 1024
    /\ \A i \in (tar.offset + 1)..Len(tar.buffer) : tar.buffer[i] = 0
    /\ ReadEntries(tar.buffer, 0)[1].content = TextEncode(tar.recipe)

\* A recipe of exactly one block and one byte: the content takes two blocks.
C21_Witness ==
  /\ tar.made
  /\ Len(TextEncode(tar.recipe)) = 513
  /\ Len(tar.buffer) = 2560
  /\ tar.offset = 1536
  /\ tar.buffer[512 + 513] # 0
  /\ tar.buffer[512 + 514] = 0

\* A recipe of exactly one block.
C21_WitnessExact ==
  /\ tar.made
  /\ Len(TextEncode(tar.recipe)) = 512
  /\ Len(tar.buffer) = 2048
  /\ tar.offset = 1024

\* `Docker API错误: `, the prefix of the detailed errors of lines 359 and 365.
DockerApiErrorPrefix ==
  <<"D", "o", "c", "k", "e", "r", " ", "A", "P", "I", "U+9519", "U+8BEF", ":",
    " ">>

\* The error a non-2xx build response with this body is to surface: the
\* message of a JSON body, else the body text (at most 200 characters),
\* else the status code.
DetailedError(body, code) ==
  LET parsed == JsonParse(body)
  IN IF parsed.ok /\ Truthy(Get(parsed.v, K_message))
       THEN DockerApiErrorPrefix \o ToStr(Get(parsed.v, K_message))
     ELSE IF body # <<>>
       THEN DockerApiErrorPrefix \o SubSeq(body, 1, Min(Len(body), 200))
     ELSE HttpErrorBuild \o code

\* C22: A build that ended on a non-2xx response reports, in status.error
\* and in the error given to onError, the message of the JSON body, else
\* the body text, else the bare status code.
C22_ErrorPrecedence ==
  (kind = "build" /\ resp = "status" /\ pc = "done") =>
    /\ status.error = DetailedError(stream, Status500)
    /\ \E i \in DOMAIN calls :
         calls[i].cb = "onError" /\ calls[i].arg = DetailedError(stream, Status500)

\* C23: A value handed to onProgress is a snapshot: whatever is applied
\* after the call, its logs, layers and overall figures stay as they were
\* when it was delivered.
C23_SnapshotsFrozen ==
  \A i \in DOMAIN calls :
    calls[i].cb = "onProgress" => SnapshotNow(i) = calls[i].arg

\* The lines of the first branch of _updateBuildProgress that the event
\* matches, in the order error/errorDetail, stream, status, aux.ID, other
\* fields.
FirstBranchLines(event) ==
  IF Truthy(Get(event, K_error)) \/ Truthy(Get(event, K_errorDetail))
    THEN <<ErrorTag \o ToStr(Get(event, K_error))>>
  ELSE IF Truthy(Get(event, K_stream)) THEN StreamLines(event)
  ELSE IF Truthy(Get(event, K_status)) THEN StatusLines(event)
  ELSE IF Truthy(Get(event, K_aux)) THEN AuxLines(event)
  ELSE OtherLines(event)

\* C24: An event appends to the logs the lines of the first branch it
\* matches and no others, also when it carries the fields of several
\* branches.
C24_FirstBranchOnly ==
  blog.fed > 0 =>
    blog.status.logs = blog.before.logs \o FirstBranchLines(blog.event)

\* The text is the objects in order, with nothing but white space before,
\* between and after them.
RECURSIVE Covers(_, _)
Covers(text, objects) ==
  LET start == RunEnd(text, 1, TRUE)
      rest == SubSeq(text, start, Len(text))
  IN IF objects = <<>> THEN rest = <<>>
     ELSE /\ StartsWith(rest, Head(objects))
          /\ Covers(SubSeq(rest, Len(Head(objects)) + 1, Len(rest)), Tail(objects))

\* C25: splitJsonObjects gives the two objects of `{"a":1}{"b":2}`; a brace
\* inside a quoted string and a quote after a backslash change neither the
\* depth nor the string mode, so `{"status":"a}b"}` is one object; and the
\* substrings returned, in order, are the line except for white space
\* before, between and after them.
C25_SplitBraceAware ==
  split.made =>
    /\ split.line = L_a \o L_b => split.objects = <<L_a, L_b>>
    /\ split.line = L_brace => split.objects = <<L_brace>>
    /\ split.line = L_quote => split.objects = <<L_quote>>
    /\ split.line = L_brace \o L_quote => split.objects = <<L_brace, L_quote>>
    /\ Covers(split.line, split.objects)
    /\ \A i \in DOMAIN split.objects :
         split.objects[i] # <<>> /\ Trim(split.objects[i]) = split.objects[i]

\* Two objects, white space between them and a rest after the last brace.
C25_Witness ==
  /\ split.made
  /\ split.line = L_brace \o <<" ">> \o <<"x">>
  /\ split.objects = <<L_brace, <<"x">>>>

\* progressDetail.<field> summed over the layers of a status.
LayersSum(s, field) == SumLayers(s.layers, DOMAIN s.layers, field)

\* Math.round(a / b * 100) for non-negative integers.
RoundPercent(a, b) == (200 * a + b) \div (2 * b)

\* C26: After a pull event without an error, overall.total and
\* overall.downloaded are the sums of progressDetail.total and
\* progressDetail.current over the known layers, and percent is
\* min(100, round(downloaded / total * 100)) when total > 0, else
\* min(100, round(completedLayers / layerCount * 100)) when a layer is
\* known, else what it was; an event with an error sets status.error and
\* leaves layers and overall as they were.
C26_OverallFigures ==
  agg.fed > 0 =>
    IF Truthy(Get(agg.event, K_error))
    THEN /\ agg.status.error = Get(agg.event, K_error).s
         /\ agg.status.layers = agg.before.layers
         /\ agg.status.overall = agg.before.overall
    ELSE LET total == LayersSum(agg.status, K_total)
             downloaded == LayersSum(agg.status, K_current)
             known == DOMAIN agg.status.layers
             done == {id \in known : LayerDone(agg.status.layers[id])}
         IN /\ agg.status.overall.total = total
            /\ agg.status.overall.downloaded = downloaded
            /\ agg.status.overall.percent =
                 IF total > 0
                   THEN Min(100, RoundPercent(downloaded, total))
                 ELSE IF known # {}
                   THEN Min(100, RoundPercent(Cardinality(done), Cardinality(known)))
                 ELSE agg.before.overall.percent

\* Two layers with byte counts, one of them complete: the percent is the
\* share of the bytes, not of the layers.
C26_Witness ==
  /\ agg.fed = 2
  /\ Cardinality(DOMAIN agg.status.layers) = 2
  /\ \E id \in DOMAIN agg.status.layers : LayerDone(agg.status.layers[id])
  /\ agg.status.overall.total = 3
  /\ agg.status.overall.downloaded = 1
  /\ agg.status.overall.percent = 33

\* C27: overall.speed is recomputed at most once per second: of two
\* consecutive events handled after the start of the pull, the second one,
\* when it comes less than a second after the first and less than a second
\* after the last throttled recomputation, is reported with the speed of
\* the first.
C27_SpeedThrottled ==
  \A i \in DOMAIN spd.reports : \A j \in DOMAIN spd.reports :
    (/\ j = i + 1
     /\ spd.reports[i].t > 0
     /\ spd.reports[j].t - spd.reports[i].t < 1000
     /\ spd.reports[j].t - spd.reports[i].lastUpdate < 1000)
      => spd.reports[j].speed = spd.reports[i].speed

\* The header block the call wrote.
WrittenHeader == SubSeq(tarEntry.buffer, tarEntry.at + 1, tarEntry.at + 512)

OctalField(bytes) == \A i \in DOMAIN bytes : bytes[i] \in 48..55

\* C28: The header addTarEntry writes has, at bytes 148..153, the six octal
\* digits of the sum of its 512 bytes with bytes 148..155 counted as
\* spaces, then a null byte and a space; at bytes 124..134 the eleven octal
\* digits of the content length; and at bytes 0..99 the first 100 bytes of
\* the name, zero-filled.
C28_HeaderFields ==
  tarEntry.made =>
    LET h == WrittenHeader
        name == TextEncode(tarEntry.filename)
        sum == SumBytes([i \in 1..512 |-> IF i \in 149..156 THEN 32 ELSE h[i]], 1, 512)
    IN /\ OctalField(SubSeq(h, 149, 154))
       /\ OctalValue(SubSeq(h, 149, 154)) = sum
       /\ h[155] = 0
       /\ h[156] = 32
       /\ OctalField(SubSeq(h, 125, 135))
       /\ OctalValue(SubSeq(h, 125, 135)) = Len(tarEntry.content)
       /\ \A i \in 1..100 : h[i] = IF i <= Len(name) THEN name[i] ELSE 0
       /\ h[101] = 48

\* A name of 101 bytes whose hundredth byte is the first byte of a two-byte
\* character, a content of a block and a byte, written at offset 512.
C28_Witness ==
  /\ tarEntry.made
  /\ tarEntry.filename = N_accent
  /\ Len(tarEntry.content) = 513
  /\ tarEntry.at = 512
  /\ tarEntry.buffer[512 + 100] = 195
  /\ SubSeq(tarEntry.buffer, 512 + 125, 512 + 135)
       = <<48, 48, 48, 48, 48, 48, 48, 49, 48, 48, 49>>

\* C29: The operation's token reaches the caller only as the value its
\* promise resolves with: by then completed = true was reported, onComplete
\* was called and the registry entry is deleted, so a cancel call with that
\* token returns false; an operation that called onError rejects and hands
\* out no token.
C29_TokenOnlyByResolving ==
  /\ outcome = "resolved" =>
       /\ pc = "done"
       /\ status.completed
       /\ \E i \in DOMAIN calls : \E j \in DOMAIN calls :
            /\ i < j
            /\ calls[i].cb = "onProgress" /\ calls[i].arg.completed
            /\ calls[j].cb = "onComplete"
       /\ ~CancelReturn(registry, token)
       /\ CancelRegistry(registry, token) = registry
  /\ outcome # "resolved" => pc # "done" \/ outcome = "rejected"
  /\ (\E i \in DOMAIN calls : calls[i].cb = "onError") => outcome = "rejected"

\* A build that resolved.
C29_Witness ==
  /\ kind = "build"
  /\ outcome = "resolved"
  /\ history # <<>>
  /\ calls[Len(calls)].cb = "onComplete"

\* C30: The stored history has at most 20 entries, newest first; a build
\* that resolved put exactly one entry, its tag and recipe, at the front
\* (the entries before follow it, up to 20 in all), and a build that ended
\* in the catch block left the history as it was.
C30_HistoryBounded ==
  /\ Len(hist.entries) <= 20
  /\ \A i \in DOMAIN hist.entries : \A j \in DOMAIN hist.entries :
       i < j => hist.entries[i].timestamp >= hist.entries[j].timestamp
  /\ (hist.last.op = "buildImage" /\ hist.last.result = "resolved") =>
       /\ Len(hist.entries) = Min(Len(hist.last.before) + 1, 20)
       /\ hist.entries[1].name = "tag"
       /\ hist.entries[1].content = "dockerfile"
       /\ hist.entries[1].timestamp = hist.last.at
       /\ \A i \in 2..Len(hist.entries) : hist.entries[i] = hist.last.before[i - 1]
  /\ (hist.last.op = "buildImage" /\ hist.last.result = "rejected") =>
       hist.entries = hist.last.before

\* A build resolved on a full history: the oldest entry went.
C30_Witness ==
  /\ hist.last.op = "buildImage"
  /\ hist.last.result = "resolved"
  /\ Len(hist.last.before) = 20
  /\ Len(hist.entries) = 20
  /\ hist.entries[2].name = "name"
  /\ hist.last.before[20].timestamp < hist.entries[1].timestamp
====
